---- MODULE Spec2Model ----
(***************************************************************************)
(* Buddy: a controller (buddy_server.py) that keeps a dictionary of        *)
(* accepted agent sockets, pings each of them from its own thread and      *)
(* broadcasts commands to all of them, and an agent (buddy_client.py) that *)
(* reads newline-terminated JSON records from the controller and runs      *)
(* them.                                                                   *)
(*                                                                         *)
(* The controller's threads (accept_connections, one handle_client per     *)
(* accepted socket, send_command, stop_server) share self.clients without  *)
(* a lock, so every access to the dictionary is a step of its own.         *)
(***************************************************************************)
EXTENDS Integers, Sequences, FiniteSets, TLC

(***************************************************************************)
(* Bounds of the model.                                                    *)
(***************************************************************************)
\* number of distinct peer addresses (host, port) that ever connect
NumAddrs == 2
\* number of connections the accept thread accepts in one run
MaxConns == 2
\* number of send_command calls in one run
MaxBroadcasts == 1
\* number of pieces (records or fragments) the controller's end writes in one session
MaxRecords == 2
\* the last host number of the scan, in the place of the 254 of range(1, 255)
LastHost == 2
\* how often hosts start or stop accepting connections
MaxEnvChanges == 2
\* the count of sessions of one agent saturates here
MaxSessions == 2
\* longest payload string of a command
MaxLen == 2
\* heartbeat pings written on one connection
MaxPings == 2
\* bytes a connection holds between the controller's send and the agent's recv
\* (the socket buffers of both ends, some tens of kilobytes)
SockBuf == 5

Addrs == 1 .. NumAddrs
Socks == 1 .. MaxConns

VARIABLES
    running,               \* BuddyServer.running
    server_socket,         \* BuddyServer.server_socket: "None", "listening", "closed"
    clients,               \* BuddyServer.clients: the dict's entry array, in insertion order
    nsock,                 \* number of sockets accept() has returned so far
    sock_addr,             \* the peer address of each accepted socket
    sock_open,             \* accepted sockets the controller has not closed
    link_up,               \* accepted sockets whose peer still takes writes
    acc_pc,                \* position of the accept_connections thread
    hb_pc,                 \* position of each handle_client thread
    stop_pc,               \* position of stop_server
    sc_pc,                 \* position of send_command
    sc_used,               \* the dict iterator's di_used: len(clients) when the loop began
    sc_pos,                \* the dict iterator's di_pos: next index of the entry array
    sc_len,                \* the dict iterator's len: items it still expects to yield
    disconnected_clients,  \* send_command's local list
    sc_rm,                 \* index of the address the removal loop is at
    sc_result,             \* how the last send_command ended
    nbcast,                \* number of send_command calls so far
    bc_registered,         \* sockets that were in the registry when send_command began
    bc_nsock,              \* number of sockets accepted when send_command began
    bc_interfered,         \* another thread changed the registry during this send_command
    attempted,             \* per socket: writes this send_command tried
    delivered,             \* per socket: writes of this send_command that succeeded
    sc_command,            \* the argument the console passes to send_command
    command_str,           \* send_command's local command_str
    sent,                  \* per socket: the bytes this send_command wrote to it
    stream,                \* every byte the controller's end wrote in this session
    wire,                  \* the bytes of it the agent has not read yet
    buffer,                \* listen_for_commands' local buffer (decoded text)
    listen_pc,             \* "listening", or how the read loop was left: "eof" or the exception
    lines_seen,            \* number of terminated lines split off the buffer so far
    handed,                \* the commands passed to process_command, in order
    agent_log,             \* the agent's log lines and executor calls, in order
    cl_running,            \* BuddyClient.running
    client_socket,         \* BuddyClient.client_socket: "None", "created", "open", "closed"
    server_ip,             \* BuddyClient.server_ip: a host, or 0 for None
    run_pc,                \* position of BuddyClient.run and of what it calls
    probe_i,               \* discover_server's loop variable i
    probed,                \* hosts probed by the discover_server call last begun
    found,                 \* what the last discover_server call returned (0 for None)
    accepting,             \* hosts that accept a connection on the controller's port now
    env_left,              \* how often the set of accepting hosts may still change
    stop_req,              \* BuddyClient.stop has been called
    cstop_pc,              \* position of BuddyClient.stop
    slept,                 \* the backoff sleep was taken since the last cleanup
    sessions,              \* number of times the read loop was entered (saturating)
    send_pc,               \* per writing thread of a connection: "idle", or "send" inside send()
    send_off,              \* per writing thread: bytes of its record the kernel has taken
    send_count,            \* per writing thread: number of send() calls begun
    pending,               \* addresses of the connections made to the listening socket and not
                           \* yet returned by accept()
    linux,                 \* BuddyServer (buddy_server.py) driven by whole events, with the
                           \* socket writes and closes it has made
    windows,               \* BuddyServerWindows (buddy_server_windows.py) driven by the same events
    dropped,               \* what the buffer of the session before held when that session ended
    hb_at_stop,            \* sockets whose handle_client loop had been started when the last
                           \* stop_server began, until start_server is called again
    waited                 \* seconds run() has slept since it last closed its socket

serverVars == <<running, server_socket, clients, nsock, sock_addr, sock_open, link_up,
                acc_pc, hb_pc, stop_pc>>
bcastVars == <<sc_pc, sc_used, sc_pos, sc_len, disconnected_clients, sc_rm, sc_result,
               nbcast, bc_registered, bc_nsock, bc_interfered, attempted, delivered,
               sc_command, command_str, sent>>

readVars == <<stream, wire, buffer, listen_pc, lines_seen, handed, agent_log>>

lifeVars == <<cl_running, client_socket, server_ip, run_pc, probe_i, probed, found,
              accepting, env_left, stop_req, cstop_pc, slept, sessions>>

connVars == <<send_pc, send_off, send_count, pending, linux, windows>>

histVars == <<dropped, hb_at_stop, waited>>

agentVars == <<readVars, lifeVars, connVars, histVars>>

(***************************************************************************)
(* The wire format.  A byte or a character is a string.  One symbol stands *)
(* for each run of ASCII text that is never split differently by the code: *)
(* an action name stands for the text "action": "<name>", a payload key    *)
(* for the text "<key>": and the characters after it are the characters of *)
(* the key's string value.  "LF" is the line feed, "e9" a non-ASCII        *)
(* character whose UTF-8 encoding is the two bytes "C3" "A9", "bs" the      *)
(* backslash and "q" the double quote inside a string value.               *)
(***************************************************************************)
LF == "LF"

\* spec 6 / process_command: the ten actions of the protocol
Actions == {"ping", "shutdown", "restart", "lock", "open_app", "close_apps",
            "show_desktop", "screenshot", "message", "execute_command"}

\* an action name no branch of process_command knows
UnknownActions == {"dance"}

PayloadKeys == {"app", "content", "command"}

\* the order in which json.dumps writes the keys the controller uses
KeyOrder == <<"app", "content", "command">>

\* a Python dict of the protocol: a function from the keys present to values
EmptyDict == [k \in {} |-> ""]

Put(d, k, v) == [x \in DOMAIN d \cup {k} |-> IF x = k THEN v ELSE d[x]]

\* dict.get(key, default)
Get(d, k, default) == IF k \in DOMAIN d THEN d[k] ELSE default

\* the dict literals of the console: {'action': a} and {'action': a, k: v}
Cmd(a) == Put(EmptyDict, "action", a)

Cmd2(a, k, v) == Put(Cmd(a), k, v)

\* an encoder that writes the line feed as it is
EscapeCharKeepsLF(c) ==
    IF c = "bs" THEN <<"bs", "bs">>
    ELSE IF c = "q" THEN <<"bs", "q">>
    ELSE IF c = "e9" THEN <<"bs", "u9">>
    ELSE <<c>>

\* json.dumps escapes the control character, the backslash, the double quote and
\* (ensure_ascii) every non-ASCII character
EscapeChar(c) ==
    IF c = LF THEN <<"bs", "n">>
    ELSE IF c = "bs" THEN <<"bs", "bs">>
    ELSE IF c = "q" THEN <<"bs", "q">>
    ELSE IF c = "e9" THEN <<"bs", "u9">>
    ELSE <<c>>

RECURSIVE Escape(_)
Escape(s) == IF s = <<>> THEN <<>> ELSE EscapeChar(Head(s)) \o Escape(Tail(s))

RECURSIVE DumpsFields(_, _)
DumpsFields(d, i) ==
    IF i > Len(KeyOrder) THEN <<>>
    ELSE (IF KeyOrder[i] \in DOMAIN d
          THEN <<KeyOrder[i]>> \o Escape(d[KeyOrder[i]])
          ELSE <<>>) \o DumpsFields(d, i + 1)

\* buddy_server.py line 242: json.dumps(command)
Dumps(d) ==
    <<"{">> \o (IF "action" \in DOMAIN d THEN <<d["action"]>> ELSE <<>>)
            \o DumpsFields(d, 1) \o <<"}">>

\* str.encode(): UTF-8
RECURSIVE Encode(_)
Encode(s) ==
    IF s = <<>> THEN <<>>
    ELSE (IF Head(s) = "e9" THEN <<"C3", "A9">> ELSE <<Head(s)>>) \o Encode(Tail(s))

\* buddy_server.py line 247: command_str.encode() + b'\n'
WireRecord(d) == Encode(Dumps(d)) \o <<LF>>

(***************************************************************************)
(* self.clients is a Python dict (3.6+): an entry array in insertion       *)
(* order.  Deleting a key leaves a hole in the array, assigning to a key   *)
(* that is present overwrites its value in place, a new key is appended.   *)
(* The array is compacted only when it is full (more than five             *)
(* insertions), which the bound MaxConns stays below.                      *)
(***************************************************************************)
Hole == [addr |-> 0, sock |-> 0]

Keys(d) == {d[i].addr : i \in DOMAIN d} \ {0}

Values(d) == {d[i].sock : i \in DOMAIN d} \ {0}

DictLen(d) == Cardinality(Keys(d))

IndexOf(d, a) == CHOOSE i \in DOMAIN d : d[i].addr = a

SetItem(d, a, s) ==
    IF a \in Keys(d)
    THEN [d EXCEPT ![IndexOf(d, a)] = [addr |-> a, sock |-> s]]
    ELSE Append(d, [addr |-> a, sock |-> s])

\* a delete that empties the dict
DelItemClears(d, a) == [i \in DOMAIN d |-> Hole]

DelItem(d, a) == [d EXCEPT ![IndexOf(d, a)] = Hole]

\* socket.send raises OSError on a socket closed locally or reset by the peer
WriteOk(s) == s \in sock_open /\ s \in link_up

\* a registry change made by a thread other than send_command
Interfere == bc_interfered' = (bc_interfered \/ sc_pc \in {"iter", "rm_check", "rm_del"})

Min(S) == CHOOSE x \in S : \A y \in S : x <= y

(***************************************************************************)
(* start_server and stop_server (the console's main thread).               *)
(***************************************************************************)
StartServer ==
    /\ stop_pc = "idle"
    /\ running = FALSE
    /\ server_socket' = "listening"
    /\ running' = TRUE
    /\ acc_pc' = "check"
    /\ hb_at_stop' = {}
    /\ UNCHANGED <<clients, nsock, sock_addr, sock_open, link_up, hb_pc, stop_pc>>
    /\ UNCHANGED bcastVars
    /\ UNCHANGED <<readVars, lifeVars, connVars, dropped, waited>>

\* line 170: self.running = False
StopSetFlag ==
    /\ stop_pc = "idle"
    /\ running = TRUE
    /\ running' = FALSE
    /\ stop_pc' = "close"
    /\ hb_at_stop' = 1 .. nsock
    /\ UNCHANGED <<server_socket, clients, nsock, sock_addr, sock_open, link_up, acc_pc, hb_pc>>
    /\ UNCHANGED bcastVars
    /\ UNCHANGED <<readVars, lifeVars, connVars, dropped, waited>>

\* lines 174-178: close every socket of a copy of the registry
StopCloseClients ==
    /\ stop_pc = "close"
    /\ sock_open' = sock_open \ Values(clients)
    /\ stop_pc' = "clear"
    /\ UNCHANGED <<running, server_socket, clients, nsock, sock_addr, link_up, acc_pc, hb_pc>>
    /\ UNCHANGED bcastVars
    /\ UNCHANGED agentVars

\* line 179: self.clients.clear()
StopClear ==
    /\ stop_pc = "clear"
    /\ clients' = <<>>
    /\ stop_pc' = "close_srv"
    /\ IF clients # <<>> THEN Interfere ELSE UNCHANGED bc_interfered
    /\ UNCHANGED <<running, server_socket, nsock, sock_addr, sock_open, link_up, acc_pc, hb_pc>>
    /\ UNCHANGED <<sc_pc, sc_used, sc_pos, sc_len, disconnected_clients, sc_rm, sc_result,
                   nbcast, bc_registered, bc_nsock, attempted, delivered,
                   sc_command, command_str, sent>>
    /\ UNCHANGED agentVars

\* lines 182-183: close the listening socket
StopCloseServer ==
    /\ stop_pc = "close_srv"
    /\ server_socket' = IF server_socket = "None" THEN "None" ELSE "closed"
    /\ stop_pc' = "idle"
    /\ UNCHANGED <<running, clients, nsock, sock_addr, sock_open, link_up, acc_pc, hb_pc>>
    /\ UNCHANGED bcastVars
    /\ UNCHANGED agentVars

(***************************************************************************)
(* accept_connections.                                                     *)
(***************************************************************************)
\* line 196: while self.running
AcceptCheck ==
    /\ acc_pc = "check"
    /\ acc_pc' = IF running THEN "accept" ELSE "done"
    /\ UNCHANGED <<running, server_socket, clients, nsock, sock_addr, sock_open, link_up,
                   hb_pc, stop_pc>>
    /\ UNCHANGED bcastVars
    /\ UNCHANGED agentVars

\* A peer address is one end of a TCP connection: a second connection from the
\* same (host, port) can be accepted only after the first one is dead.
AddrFree(a) == \A s \in 1 .. nsock : sock_addr[s] = a => s \notin link_up

\* line 199: self.clients[address] = client_socket
Register(a, s) == SetItem(clients, a, s)

\* lines 198-206: accept returns a connection from address a; register the socket,
\* start its handle_client thread
AcceptStep(a) ==
    /\ acc_pc = "accept"
    /\ server_socket = "listening"
    /\ nsock < MaxConns
    /\ AddrFree(a)
    /\ LET s == nsock + 1 IN
        /\ nsock' = s
        /\ sock_addr' = [sock_addr EXCEPT ![s] = a]
        /\ sock_open' = sock_open \cup {s}
        /\ link_up' = link_up \cup {s}
        /\ clients' = Register(a, s)
        /\ hb_pc' = [hb_pc EXCEPT ![s] = "loop"]
    /\ acc_pc' = "check"
    /\ Interfere
    /\ UNCHANGED <<running, server_socket, stop_pc>>
    /\ UNCHANGED <<sc_pc, sc_used, sc_pos, sc_len, disconnected_clients, sc_rm, sc_result,
                   nbcast, bc_registered, bc_nsock, attempted, delivered,
                   sc_command, command_str, sent>>

\* the accept thread taken on its own: some agent has connected from address a
Accept(a) ==
    /\ AcceptStep(a)
    /\ UNCHANGED agentVars

\* lines 208-209: accept() on the closed listening socket raises OSError
AcceptOSError ==
    /\ acc_pc = "accept"
    /\ server_socket = "closed"
    /\ acc_pc' = "done"
    /\ UNCHANGED <<running, server_socket, clients, nsock, sock_addr, sock_open, link_up,
                   hb_pc, stop_pc>>
    /\ UNCHANGED bcastVars
    /\ UNCHANGED agentVars

\* the agent at the other end closes its socket, crashes or reboots
PeerDies(s) ==
    /\ s \in link_up
    /\ link_up' = link_up \ {s}
    /\ UNCHANGED <<running, server_socket, clients, nsock, sock_addr, sock_open,
                   acc_pc, hb_pc, stop_pc>>
    /\ UNCHANGED bcastVars
    /\ UNCHANGED agentVars

(***************************************************************************)
(* handle_client: one thread per accepted socket.                          *)
(***************************************************************************)
\* a failed write ends the loop like a cleared flag does
HbPingEndsQuietly(s) == IF ~running \/ ~WriteOk(s) THEN "done" ELSE "loop"

\* line 213: while self.running; lines 216-217 and 220: the write, which raises or not
HbPingNext(s) ==
    IF ~running THEN "done"
    ELSE IF WriteOk(s) THEN "loop" ELSE "except"

\* lines 213-218: the loop test, the ping, and the sleep that follows a ping that
\* was written
HbPing(s) ==
    /\ hb_pc[s] = "loop"
    /\ hb_pc' = [hb_pc EXCEPT ![s] = HbPingNext(s)]
    /\ UNCHANGED <<running, server_socket, clients, nsock, sock_addr, sock_open, link_up,
                   acc_pc, stop_pc>>
    /\ UNCHANGED bcastVars
    /\ UNCHANGED agentVars

\* the handler ends the thread without touching the registry
HbExceptSkipsRemoval(s) == "failed"

\* line 223: if address in self.clients
HbExceptNext(s) == IF sock_addr[s] \in Keys(clients) THEN "del" ELSE "failed"

HbExcept(s) ==
    /\ hb_pc[s] = "except"
    /\ hb_pc' = [hb_pc EXCEPT ![s] = HbExceptNext(s)]
    /\ UNCHANGED <<running, server_socket, clients, nsock, sock_addr, sock_open, link_up,
                   acc_pc, stop_pc>>
    /\ UNCHANGED bcastVars
    /\ UNCHANGED agentVars

\* line 224: del self.clients[address]; KeyError when another thread removed it first
HbDel(s) ==
    /\ hb_pc[s] = "del"
    /\ IF sock_addr[s] \in Keys(clients)
       THEN /\ clients' = DelItem(clients, sock_addr[s])
            /\ hb_pc' = [hb_pc EXCEPT ![s] = "failed"]
            /\ Interfere
       ELSE /\ hb_pc' = [hb_pc EXCEPT ![s] = "KeyError"]
            /\ UNCHANGED <<clients, bc_interfered>>
    /\ UNCHANGED <<running, server_socket, nsock, sock_addr, sock_open, link_up,
                   acc_pc, stop_pc>>
    /\ UNCHANGED <<sc_pc, sc_used, sc_pos, sc_len, disconnected_clients, sc_rm, sc_result,
                   nbcast, bc_registered, bc_nsock, attempted, delivered,
                   sc_command, command_str, sent>>
    /\ UNCHANGED agentVars

(***************************************************************************)
(* send_command (a console button, or the voice-recognition thread).       *)
(***************************************************************************)
Zero == [s \in Socks |-> 0]

\* no socket has been written to
NoBytes == [s \in Socks |-> <<>>]

\* the two threads that write to an agent's connection: its handle_client thread
\* (line 217) and the thread that runs send_command (line 247)
Writers == {"ping", "command"}

\* lines 238-245: return when the registry is empty, else start the loop over
\* self.clients.items(), a view of the live dictionary
SendCommandBegin ==
    /\ sc_pc = "idle"
    /\ nbcast < MaxBroadcasts
    /\ nbcast' = nbcast + 1
    /\ bc_registered' = Values(clients)
    /\ bc_nsock' = nsock
    /\ bc_interfered' = FALSE
    /\ attempted' = Zero
    /\ delivered' = Zero
    /\ sent' = NoBytes
    /\ disconnected_clients' = <<>>
    /\ sc_rm' = 1
    /\ sc_pos' = 1
    /\ IF DictLen(clients) = 0
       THEN /\ sc_pc' = "idle"
            /\ sc_result' = "empty"
            /\ sc_used' = 0
            /\ sc_len' = 0
            /\ command_str' = command_str
       ELSE /\ sc_pc' = "iter"
            /\ sc_result' = "running"
            /\ sc_used' = DictLen(clients)
            /\ sc_len' = DictLen(clients)
            /\ command_str' = Dumps(sc_command)
    /\ sc_command' = sc_command
    /\ UNCHANGED serverVars
    /\ UNCHANGED agentVars

\* the uncaught exception leaves send_command
ScRaise(e) ==
    /\ sc_pc' = "idle"
    /\ sc_result' = e
    /\ UNCHANGED <<clients, sc_used, sc_pos, sc_len, disconnected_clients, sc_rm,
                   attempted, delivered, sent>>

\* lines 258-259: the end of send_command
ScReturn ==
    /\ sc_pc' = "idle"
    /\ sc_result' = "done"

\* the handler leaves the loop (a break in the except branch)
SendFailedBreaks(a) ==
    /\ disconnected_clients' = Append(disconnected_clients, a)
    /\ clients' = clients
    /\ sc_pc' = "rm_check"
    /\ sc_result' = sc_result

\* lines 249-250: the write raised; remember the address and go on with the loop
SendFailed(a) ==
    /\ disconnected_clients' = Append(disconnected_clients, a)
    /\ clients' = clients
    /\ sc_pc' = "iter"
    /\ sc_result' = sc_result

\* lines 245-250: the iterator yields the entry at index i, and the write to it
ScYield(i) ==
    /\ sc_pos' = i + 1
    /\ sc_len' = IF sc_len > 0 THEN sc_len - 1 ELSE 0
    /\ attempted' = [attempted EXCEPT ![clients[i].sock] = @ + 1]
    /\ IF WriteOk(clients[i].sock)
       THEN /\ delivered' = [delivered EXCEPT ![clients[i].sock] = @ + 1]
            /\ sent' = [sent EXCEPT ![clients[i].sock] = @ \o Encode(command_str) \o <<LF>>]
            /\ UNCHANGED <<clients, disconnected_clients, sc_pc, sc_result>>
       ELSE /\ SendFailed(clients[i].addr)
            /\ UNCHANGED <<delivered, sent>>
    /\ UNCHANGED <<sc_used, sc_rm>>

\* entries the iterator has not passed yet
ScRest == {i \in DOMAIN clients : i >= sc_pos /\ clients[i].addr # 0}

\* line 245: one step of `for address, client_socket in self.clients.items()`.
\* CPython's dict iterator raises RuntimeError when the dict's size differs from the
\* size at the start of the loop; when it has yielded as many items as the dict had
\* and still finds an entry, 3.8 and later raise RuntimeError, earlier versions yield.
ScNext ==
    /\ sc_pc = "iter"
    /\ IF sc_used # DictLen(clients)
       THEN ScRaise("RuntimeError")
       ELSE IF ScRest = {}
       THEN /\ IF disconnected_clients = <<>>
               THEN ScReturn
               ELSE /\ sc_pc' = "rm_check"
                    /\ sc_result' = sc_result
            /\ UNCHANGED <<clients, sc_used, sc_pos, sc_len, disconnected_clients, sc_rm,
                           attempted, delivered, sent>>
       ELSE \/ ScYield(Min(ScRest))
            \/ /\ sc_len = 0
               /\ ScRaise("RuntimeError")
    /\ UNCHANGED <<nbcast, bc_registered, bc_nsock, bc_interfered, sc_command, command_str>>
    /\ UNCHANGED <<running, server_socket, nsock, sock_addr, sock_open, link_up,
                   acc_pc, hb_pc, stop_pc>>
    /\ UNCHANGED agentVars

\* the removal loop moves to the next address, or send_command ends
ScRemoveAdvance ==
    IF sc_rm < Len(disconnected_clients)
    THEN /\ sc_rm' = sc_rm + 1
         /\ sc_pc' = "rm_check"
         /\ sc_result' = sc_result
    ELSE /\ sc_rm' = sc_rm
         /\ ScReturn

\* line 254: if addr in self.clients
ScRemoveCheck ==
    /\ sc_pc = "rm_check"
    /\ IF disconnected_clients[sc_rm] \in Keys(clients)
       THEN /\ sc_pc' = "rm_del"
            /\ UNCHANGED <<sc_rm, sc_result>>
       ELSE ScRemoveAdvance
    /\ UNCHANGED <<sc_used, sc_pos, sc_len, disconnected_clients, nbcast, bc_registered,
                   bc_nsock, bc_interfered, attempted, delivered,
                   sc_command, command_str, sent>>
    /\ UNCHANGED serverVars
    /\ UNCHANGED agentVars

\* line 255: del self.clients[addr]; KeyError when another thread removed it first
ScRemoveDel ==
    /\ sc_pc = "rm_del"
    /\ IF disconnected_clients[sc_rm] \in Keys(clients)
       THEN /\ clients' = DelItem(clients, disconnected_clients[sc_rm])
            /\ ScRemoveAdvance
       ELSE /\ sc_pc' = "idle"
            /\ sc_result' = "KeyError"
            /\ UNCHANGED <<clients, sc_rm>>
    /\ UNCHANGED <<sc_used, sc_pos, sc_len, disconnected_clients, nbcast, bc_registered,
                   bc_nsock, bc_interfered, attempted, delivered,
                   sc_command, command_str, sent>>
    /\ UNCHANGED <<running, server_socket, nsock, sock_addr, sock_open, link_up,
                   acc_pc, hb_pc, stop_pc>>
    /\ UNCHANGED agentVars

\* bytes.decode(): UTF-8, strict.  ok is FALSE for UnicodeDecodeError.
RECURSIVE Decode(_)
Decode(b) ==
    IF b = <<>> THEN [ok |-> TRUE, text |-> <<>>]
    ELSE IF Head(b) = "C3"
    THEN IF Len(b) >= 2 /\ b[2] = "A9"
         THEN LET r == Decode(Tail(Tail(b)))
              IN  [ok |-> r.ok, text |-> <<"e9">> \o r.text]
         ELSE [ok |-> FALSE, text |-> <<>>]
    ELSE IF Head(b) = "A9"
    THEN [ok |-> FALSE, text |-> <<>>]
    ELSE LET r == Decode(Tail(b))
         IN  [ok |-> r.ok, text |-> <<Head(b)>> \o r.text]

\* str.strip(): the blank and the line feed are whitespace
Whitespace == {" ", LF}

RECURSIVE LStrip(_)
LStrip(s) == IF s # <<>> /\ Head(s) \in Whitespace THEN LStrip(Tail(s)) ELSE s

RECURSIVE RStrip(_)
RStrip(s) ==
    IF s # <<>> /\ s[Len(s)] \in Whitespace THEN RStrip(SubSeq(s, 1, Len(s) - 1)) ELSE s

Strip(s) == RStrip(LStrip(s))

\* the characters of a JSON string value, up to the next key or the end
RECURSIVE ParseStr(_, _)
ParseStr(s, acc) ==
    IF s = <<>> \/ Head(s) \in PayloadKeys \cup Actions \cup UnknownActions
    THEN [ok |-> TRUE, val |-> acc, rest |-> s]
    ELSE IF Head(s) = "bs"
    THEN IF Len(s) >= 2 /\ s[2] \in {"n", "bs", "u9", "q"}
         THEN ParseStr(Tail(Tail(s)),
                       Append(acc, IF s[2] = "n" THEN LF
                                   ELSE IF s[2] = "u9" THEN "e9" ELSE s[2]))
         ELSE [ok |-> FALSE, val |-> <<>>, rest |-> <<>>]
    ELSE IF Head(s) \in {"{", "}", "5", "q", LF}
    THEN [ok |-> FALSE, val |-> <<>>, rest |-> <<>>]
    ELSE ParseStr(Tail(s), Append(acc, Head(s)))

RECURSIVE ParseFields(_, _)
ParseFields(s, d) ==
    IF s = <<>> THEN [ok |-> TRUE, val |-> d]
    ELSE IF Head(s) \in Actions \cup UnknownActions
    THEN ParseFields(Tail(s), Put(d, "action", Head(s)))
    ELSE IF Head(s) \in PayloadKeys
    THEN LET r == ParseStr(Tail(s), <<>>)
         IN  IF r.ok THEN ParseFields(r.rest, Put(d, Head(s), r.val))
             ELSE [ok |-> FALSE, val |-> EmptyDict]
    ELSE [ok |-> FALSE, val |-> EmptyDict]

\* buddy_client.py line 120: json.loads(text).  kind is "dict" for a JSON object,
\* "other" for any other JSON value (here the number 5), "error" for JSONDecodeError.
Loads(s) ==
    IF s = <<"5">> THEN [kind |-> "other", val |-> EmptyDict]
    ELSE IF Len(s) >= 2 /\ s[1] = "{" /\ s[Len(s)] = "}"
    THEN LET r == ParseFields(SubSeq(s, 2, Len(s) - 1), EmptyDict)
         IN  IF r.ok THEN [kind |-> "dict", val |-> r.val]
             ELSE [kind |-> "error", val |-> EmptyDict]
    ELSE [kind |-> "error", val |-> EmptyDict]

(***************************************************************************)
(* process_command.  The result is the sequence of what it logs and of the *)
(* executor operations it invokes; `fails` is the set of executor          *)
(* operations that raise on this machine at this moment.                   *)
(***************************************************************************)
\* the executor operations of spec 6, one per action that has one
ExecOps == {"shutdown", "restart", "lock", "open_app", "close_apps", "show_desktop",
            "screenshot", "show_message", "shell"}

\* line 199: the default of command.get('content', ...)
DefaultContent == <<"Message from administrator">>

\* the last branch runs the unknown action as a shell command
UnknownBranchRuns(action) == << <<"Unknown command", action>>, <<"exec", "shell", <<>>>> >>

\* lines 209-210: the else branch
UnknownBranch(action) == << <<"Unknown command", action>> >>

\* the branch without the test of line 205: the shell runs whatever get returned
ExecuteCommandUnguarded(command) ==
    << <<"log", "Executing command">>,
       <<"exec", "shell", Get(command, "command", <<>>)>> >>

\* lines 202-207: the execute_command branch
ExecuteCommandBranch(command) ==
    IF Get(command, "command", <<>>) # <<>>
    THEN << <<"log", "Executing command">>,
            <<"exec", "shell", Get(command, "command", <<>>)>> >>
    ELSE <<>>

\* lines 138-210: the branch of the action: what it logs and invokes before any
\* exception.  An executor call is <<"exec", operation, argument>>.
Dispatch(action, command) ==
    IF action = "ping" THEN <<>>
    ELSE IF action = "shutdown"
    THEN << <<"log", "Shutting down system">>, <<"exec", "shutdown", <<>>>> >>
    ELSE IF action = "restart"
    THEN << <<"log", "Restarting system">>, <<"exec", "restart", <<>>>> >>
    ELSE IF action = "lock"
    THEN << <<"log", "Locking screen">>, <<"exec", "lock", <<>>>> >>
    ELSE IF action = "open_app"
    THEN << <<"log", "Opening application">>,
            <<"exec", "open_app", Get(command, "app", <<>>)>> >>
    ELSE IF action = "close_apps"
    THEN << <<"log", "Closing all user applications">>, <<"exec", "close_apps", <<>>>> >>
    ELSE IF action = "show_desktop"
    THEN << <<"log", "Showing desktop">>, <<"exec", "show_desktop", <<>>>> >>
    ELSE IF action = "screenshot"
    THEN << <<"log", "Taking screenshot">>, <<"exec", "screenshot", <<>>>> >>
    ELSE IF action = "message"
    THEN << <<"exec", "show_message", Get(command, "content", DefaultContent)>> >>
    ELSE IF action = "execute_command" THEN ExecuteCommandBranch(command)
    ELSE UnknownBranch(action)

\* lines 175-181: close_apps swallows every exception of its executor calls itself
Raises(ev, fails) == Len(ev) = 3 /\ ev[2] \in fails /\ ev[2] # "close_apps"

\* lines 137, 212-213: the try block ends at the first executor call that raises,
\* and the handler logs it; nothing leaves process_command
RECURSIVE RunTry(_, _, _)
RunTry(evs, fails, action) ==
    IF evs = <<>> THEN [log |-> <<>>, raised |-> ""]
    ELSE IF Raises(Head(evs), fails)
    THEN [log |-> <<Head(evs), <<"Error executing command", action>>>>, raised |-> ""]
    ELSE LET r == RunTry(Tail(evs), fails, action)
         IN  [log |-> <<Head(evs)>> \o r.log, raised |-> r.raised]

\* process_command without its try block: an executor exception leaves it
ProcessCommandNoTry(v, fails) ==
    IF v.kind # "dict"
    THEN [log |-> <<>>, raised |-> "AttributeError"]
    ELSE LET action == Get(v.val, "action", "")
             evs == Dispatch(action, v.val)
         IN  IF \E i \in DOMAIN evs : Raises(evs[i], fails)
             THEN [log |-> << <<"Received command", action>> >>, raised |-> "Exception"]
             ELSE [log |-> << <<"Received command", action>> >> \o evs, raised |-> ""]

\* lines 132-213.  v is the value json.loads returned; the result is what was
\* logged and invoked, and the exception that left process_command ("" for none).
\* Line 134 is outside the try block: command.get raises AttributeError when the
\* value is no dict.
ProcessCommand(v, fails) ==
    IF v.kind # "dict"
    THEN [log |-> <<>>, raised |-> "AttributeError"]
    ELSE LET action == Get(v.val, "action", "")
             r == RunTry(Dispatch(action, v.val), fails, action)
         IN  [log |-> << <<"Received command", action>> >> \o r.log, raised |-> r.raised]

(***************************************************************************)
(* listen_for_commands.                                                    *)
(***************************************************************************)
\* str.rsplit in place of str.split: the buffer is cut at its last terminator
FirstLFIsLast(buf) ==
    IF \E i \in DOMAIN buf : buf[i] = LF
    THEN CHOOSE i \in DOMAIN buf : buf[i] = LF /\ \A j \in DOMAIN buf : buf[j] = LF => j <= i
    ELSE 0

\* line 117: buffer.split('\n', 1): position of the first terminator of the buffer,
\* 0 when there is none
FirstLF(buf) ==
    IF \E i \in DOMAIN buf : buf[i] = LF
    THEN Min({i \in DOMAIN buf : buf[i] = LF})
    ELSE 0

\* lines 116-130: the loop over the complete lines of the buffer.  st is
\* [buffer, n, handed, log, raised]; raised names the exception that left the loop
\* ("" for none): line 122 catches JSONDecodeError only, lines 128-130 catch every
\* other exception, log it and break.
RECURSIVE Drain(_, _)
Drain(st, fails) ==
    IF FirstLF(st.buffer) = 0 THEN st
    ELSE LET i == FirstLF(st.buffer)
             line == SubSeq(st.buffer, 1, i - 1)
             rest == SubSeq(st.buffer, i + 1, Len(st.buffer))
             n == st.n + 1
             v == Loads(Strip(line))
             r == ProcessCommand(v, fails)
             h == Append(st.handed, [n |-> n, kind |-> v.kind, cmd |-> v.val])
         IN  IF Strip(line) = <<>>
             THEN Drain([st EXCEPT !.buffer = rest, !.n = n], fails)
             ELSE IF v.kind = "error"
             THEN Drain([st EXCEPT !.buffer = rest, !.n = n,
                                   !.log = Append(@, <<"Invalid JSON received">>)], fails)
             ELSE IF r.raised # ""
             THEN [st EXCEPT !.buffer = rest, !.n = n, !.handed = h,
                             !.log = Append(@ \o r.log, <<"Error receiving data">>),
                             !.raised = r.raised]
             ELSE Drain([st EXCEPT !.buffer = rest, !.n = n, !.handed = h,
                                   !.log = @ \o r.log], fails)

\* the end of a read taken for the end of a record
OnDataFlushes(st, data, fails) ==
    IF ~Decode(data).ok
    THEN [st EXCEPT !.log = Append(@, <<"Error receiving data">>),
                    !.raised = "UnicodeDecodeError"]
    ELSE Drain([st EXCEPT !.buffer = @ \o Decode(data).text \o <<LF>>], fails)

\* lines 109-130: one pass of the read loop over the bytes one recv returned;
\* line 109 decodes the chunk on its own
OnData(st, data, fails) ==
    IF ~Decode(data).ok
    THEN [st EXCEPT !.log = Append(@, <<"Error receiving data">>),
                    !.raised = "UnicodeDecodeError"]
    ELSE Drain([st EXCEPT !.buffer = @ \o Decode(data).text], fails)

\* line 109: recv(1024) returns at most this many bytes
RecvSize == 1024

AgentState == [buffer |-> buffer, n |-> lines_seen, handed |-> handed, log |-> agent_log,
               raised |-> ""]

\* lines 107-123: recv returns the next k bytes of the stream
RecvStep(k, fails) ==
    /\ listen_pc = "listening"
    /\ k <= Len(wire)
    /\ k <= RecvSize
    /\ \E st \in {OnData(AgentState, SubSeq(wire, 1, k), fails)} :
        /\ buffer' = st.buffer
        /\ lines_seen' = st.n
        /\ handed' = st.handed
        /\ agent_log' = st.log
        /\ listen_pc' = IF st.raised # "" THEN st.raised ELSE "listening"
    /\ wire' = SubSeq(wire, k + 1, Len(wire))
    /\ UNCHANGED stream

\* the read loop taken on its own
Recv(k, fails) ==
    /\ RecvStep(k, fails)
    /\ UNCHANGED <<serverVars, bcastVars, lifeVars, connVars, histVars>>

\* lines 110-111: the controller's end closed the stream: recv returns b'' once all
\* bytes were read
RecvEOFStep ==
    /\ listen_pc = "listening"
    /\ wire = <<>>
    /\ listen_pc' = "eof"
    /\ UNCHANGED <<stream, wire, buffer, lines_seen, handed, agent_log>>

RecvEOF ==
    /\ RecvEOFStep
    /\ UNCHANGED <<serverVars, bcastVars, lifeVars, connVars, histVars>>

\* lines 125-127: the stream is reset: recv raises, bytes not yet read are lost
RecvErrorStep ==
    /\ listen_pc = "listening"
    /\ listen_pc' = "OSError"
    /\ wire' = <<>>
    /\ agent_log' = Append(agent_log, <<"Connection to server lost">>)
    /\ UNCHANGED <<stream, buffer, lines_seen, handed>>

RecvError ==
    /\ RecvErrorStep
    /\ UNCHANGED <<serverVars, bcastVars, lifeVars, connVars, histVars>>

(***************************************************************************)
(* The agent's lifecycle: BuddyClient.run on the main thread, with         *)
(* connect_to_server, discover_server and listen_for_commands called from  *)
(* it, and BuddyClient.stop called from another thread.  What the read     *)
(* loop does with the bytes it reads is left to Recv above: here a read    *)
(* returns data, returns the end of the stream, or raises.                 *)
(***************************************************************************)
\* buddy_client.py line 63: range(1, 255), with LastHost in the place of 254
Hosts == 1 .. LastHost

\* a host starts or stops accepting connections on the controller's port
EnvChange(h) ==
    /\ env_left > 0
    /\ env_left' = env_left - 1
    /\ accepting' = IF h \in accepting THEN accepting \ {h} ELSE accepting \cup {h}
    /\ UNCHANGED <<cl_running, client_socket, server_ip, run_pc, probe_i, probed, found,
                   stop_req, cstop_pc, slept, sessions>>
    /\ UNCHANGED <<serverVars, bcastVars, readVars, connVars, histVars>>

\* line 258: self.running = True
RunStart ==
    /\ run_pc = "idle"
    /\ cl_running' = TRUE
    /\ run_pc' = "first"
    /\ UNCHANGED <<client_socket, server_ip, probe_i, probed, found, accepting, env_left,
                   stop_req, cstop_pc, slept, sessions>>
    /\ UNCHANGED <<serverVars, bcastVars, readVars, connVars, histVars>>

\* line 260: while self.running; a true test enters connect_to_server
RunWhileNext == IF cl_running THEN "resolve" ELSE "halted"

RunWhile ==
    /\ run_pc \in {"first", "while"}
    /\ run_pc' = RunWhileNext
    /\ UNCHANGED <<cl_running, client_socket, server_ip, probe_i, probed, found, accepting,
                   env_left, stop_req, cstop_pc, slept, sessions>>
    /\ UNCHANGED <<serverVars, bcastVars, readVars, connVars, histVars>>

\* every attempt starts with a discovery
ConnectResolveAlwaysDiscovers ==
    /\ run_pc = "resolve"
    /\ run_pc' = "hostname"
    /\ probed' = {}
    /\ found' = 0
    /\ UNCHANGED <<cl_running, client_socket, server_ip, probe_i, accepting, env_left,
                   stop_req, cstop_pc, slept, sessions>>
    /\ UNCHANGED <<serverVars, bcastVars, readVars, connVars, histVars>>

\* lines 86-87: if not self.server_ip: self.server_ip = self.discover_server()
ConnectResolve ==
    /\ run_pc = "resolve"
    /\ IF server_ip = 0
       THEN /\ run_pc' = "hostname"
            /\ probed' = {}
            /\ found' = 0
       ELSE /\ run_pc' = "socket"
            /\ UNCHANGED <<probed, found>>
    /\ UNCHANGED <<cl_running, client_socket, server_ip, probe_i, accepting, env_left,
                   stop_req, cstop_pc, slept, sessions>>
    /\ UNCHANGED <<serverVars, bcastVars, readVars, connVars, histVars>>

\* lines 54-60 and 79-80: `hostname -I` gives the local prefix, or the try block is
\* left by an exception (no address, no such program) and discover_server returns None
DiscoverLocal(ok) ==
    /\ run_pc = "hostname"
    /\ IF ok
       THEN /\ run_pc' = "probe"
            /\ probe_i' = 1
       ELSE /\ run_pc' = "discovered"
            /\ UNCHANGED probe_i
    /\ UNCHANGED <<cl_running, client_socket, server_ip, probed, found, accepting,
                   env_left, stop_req, cstop_pc, slept, sessions>>
    /\ UNCHANGED <<serverVars, bcastVars, readVars, connVars, histVars>>

\* the test of connect_ex's result is inverted
ProbeHitInverted(i) == i \notin accepting

\* line 70: connect_ex returned 0
ProbeHit(i) == i \in accepting

\* lines 63-77: one iteration of the scan; line 82 after the last one
DiscoverProbeStep ==
    /\ run_pc = "probe"
    /\ probed' = probed \cup {probe_i}
    /\ IF ProbeHit(probe_i)
       THEN /\ found' = probe_i
            /\ run_pc' = "discovered"
            /\ UNCHANGED probe_i
       ELSE /\ UNCHANGED found
            /\ IF probe_i < LastHost
               THEN /\ probe_i' = probe_i + 1
                    /\ UNCHANGED run_pc
               ELSE /\ run_pc' = "discovered"
                    /\ UNCHANGED probe_i
    /\ UNCHANGED <<cl_running, client_socket, server_ip, accepting, env_left, stop_req,
                   cstop_pc, slept, sessions>>

\* the scan taken on its own: what a probe does to the host it reaches is left out
DiscoverProbe ==
    /\ DiscoverProbeStep
    /\ UNCHANGED <<serverVars, bcastVars, readVars, connVars, histVars>>

\* without an address the agent ends
ResolvedGivesUp(ip) == IF ip = 0 THEN "halted" ELSE "socket"

\* lines 89-93: without an address connect_to_server returns False
ResolvedNext(ip) == IF ip = 0 THEN "cleanup" ELSE "socket"

\* lines 87-91: the result of discover_server is stored
ConnectResolved ==
    /\ run_pc = "discovered"
    /\ server_ip' = found
    /\ run_pc' = ResolvedNext(found)
    /\ UNCHANGED <<cl_running, client_socket, probe_i, probed, found, accepting, env_left,
                   stop_req, cstop_pc, slept, sessions>>
    /\ UNCHANGED <<serverVars, bcastVars, readVars, connVars, histVars>>

\* line 94: self.client_socket = socket.socket(...)
ConnectSocket ==
    /\ run_pc = "socket"
    /\ client_socket' = "created"
    /\ run_pc' = "connect"
    /\ UNCHANGED <<cl_running, server_ip, probe_i, probed, found, accepting, env_left,
                   stop_req, cstop_pc, slept, sessions>>
    /\ UNCHANGED <<serverVars, bcastVars, readVars, connVars, histVars>>

\* the read loop is entered whatever connect_to_server returned
RunAfterConnectAlways(connected) == "listen"

\* lines 261-263: if self.connect_to_server(): ... self.listen_for_commands()
RunAfterConnect(connected) == IF connected THEN "listen" ELSE "cleanup"

\* the buffer is an attribute that lives on from one session to the next
EnterBufferKept(buf) == buf

\* line 105: buffer = "", a local of listen_for_commands
EnterBuffer(buf) == <<>>

\* lines 95-101: connect; it raises when the host does not accept or when stop()
\* closed the socket meanwhile.  When it returns, run() calls listen_for_commands
\* (lines 261-263), which starts with an empty buffer (line 105) on the stream of
\* the new session.
ConnectConnectStep ==
    /\ run_pc = "connect"
    /\ LET connected == client_socket = "created" /\ server_ip \in accepting IN
        /\ client_socket' = IF connected THEN "open" ELSE client_socket
        /\ run_pc' = RunAfterConnect(connected)
        /\ sessions' = IF RunAfterConnect(connected) = "listen" /\ sessions < MaxSessions
                       THEN sessions + 1 ELSE sessions
        /\ IF RunAfterConnect(connected) = "listen"
           THEN /\ buffer' = EnterBuffer(buffer)
                /\ dropped' = buffer
                /\ UNCHANGED <<hb_at_stop, waited>>
                /\ stream' = <<>>
                /\ wire' = <<>>
                /\ listen_pc' = "listening"
                /\ lines_seen' = 0
                /\ handed' = <<>>
                /\ agent_log' = <<>>
           ELSE UNCHANGED <<readVars, histVars>>
    /\ UNCHANGED <<cl_running, server_ip, probe_i, probed, found, accepting, env_left,
                   stop_req, cstop_pc, slept>>

\* the agent taken on its own
ConnectConnect ==
    /\ ConnectConnectStep
    /\ UNCHANGED <<serverVars, bcastVars, connVars>>

\* line 107: while self.running
ListenWhile ==
    /\ run_pc = "listen"
    /\ run_pc' = IF cl_running THEN "recv" ELSE "cleanup"
    /\ UNCHANGED <<cl_running, client_socket, server_ip, probe_i, probed, found, accepting,
                   env_left, stop_req, cstop_pc, slept, sessions>>
    /\ UNCHANGED <<serverVars, bcastVars, readVars, connVars, histVars>>

\* lines 109-130: recv returns data and its records are processed, or it returns
\* b'' (line 111), or an exception leaves the loop (lines 125-130)
ListenRecv(outcome) ==
    /\ run_pc = "recv"
    /\ run_pc' = IF outcome = "data" THEN "listen" ELSE "cleanup"
    /\ UNCHANGED <<cl_running, client_socket, server_ip, probe_i, probed, found, accepting,
                   env_left, stop_req, cstop_pc, slept, sessions>>
    /\ UNCHANGED <<serverVars, bcastVars, readVars, connVars, histVars>>

\* the socket is closed and the attribute keeps it
RunCleanupKeepsSocket ==
    /\ run_pc = "cleanup"
    /\ client_socket' = IF client_socket = "None" THEN "None" ELSE "closed"
    /\ slept' = FALSE
    /\ waited' = 0
    /\ run_pc' = "backoff"
    /\ UNCHANGED <<cl_running, server_ip, probe_i, probed, found, accepting, env_left,
                   stop_req, cstop_pc, sessions>>
    /\ UNCHANGED <<serverVars, bcastVars, readVars, connVars, dropped, hb_at_stop>>

\* lines 265-267: close the socket, if there is one, and forget it
RunCleanup ==
    /\ run_pc = "cleanup"
    /\ client_socket' = "None"
    /\ slept' = FALSE
    /\ waited' = 0
    /\ run_pc' = "backoff"
    /\ UNCHANGED <<cl_running, server_ip, probe_i, probed, found, accepting, env_left,
                   stop_req, cstop_pc, sessions>>
    /\ UNCHANGED <<serverVars, bcastVars, readVars, connVars, dropped, hb_at_stop>>

\* the agent gives up after a session or a failed attempt
RunBackoffGivesUp == "halted"

\* line 269: if self.running
RunBackoffNext == IF cl_running THEN "sleep" ELSE "while"

RunBackoff ==
    /\ run_pc = "backoff"
    /\ run_pc' = RunBackoffNext
    /\ UNCHANGED <<cl_running, client_socket, server_ip, probe_i, probed, found, accepting,
                   env_left, stop_req, cstop_pc, slept, sessions>>
    /\ UNCHANGED <<serverVars, bcastVars, readVars, connVars, histVars>>

\* line 39: self.reconnect_delay = 5; no other line assigns it
reconnect_delay == 5

\* a wait that grows with the number of sessions the agent has had
SleepTimeGrows == reconnect_delay * (sessions + 1)

\* line 271: the argument of time.sleep
SleepTime == reconnect_delay

\* lines 270-271: time.sleep(self.reconnect_delay)
RunSleep ==
    /\ run_pc = "sleep"
    /\ slept' = TRUE
    /\ waited' = waited + SleepTime
    /\ run_pc' = "while"
    /\ UNCHANGED <<cl_running, client_socket, server_ip, probe_i, probed, found, accepting,
                   env_left, stop_req, cstop_pc, sessions>>
    /\ UNCHANGED <<serverVars, bcastVars, readVars, connVars, dropped, hb_at_stop>>

\* line 275: self.running = False
StopAgentFlag ==
    /\ cstop_pc = "idle"
    /\ run_pc # "idle"
    /\ cl_running' = FALSE
    /\ stop_req' = TRUE
    /\ cstop_pc' = "check"
    /\ UNCHANGED <<client_socket, server_ip, run_pc, probe_i, probed, found, accepting,
                   env_left, slept, sessions>>
    /\ UNCHANGED <<serverVars, bcastVars, readVars, connVars, histVars>>

\* line 276: if self.client_socket
StopAgentCheck ==
    /\ cstop_pc = "check"
    /\ cstop_pc' = IF client_socket = "None" THEN "done" ELSE "close"
    /\ UNCHANGED <<cl_running, client_socket, server_ip, run_pc, probe_i, probed, found,
                   accepting, env_left, stop_req, slept, sessions>>
    /\ UNCHANGED <<serverVars, bcastVars, readVars, connVars, histVars>>

\* line 277: self.client_socket.close(); the attribute is read again, and run()
\* may have set it to None since line 276
StopAgentClose ==
    /\ cstop_pc = "close"
    /\ IF client_socket = "None"
       THEN /\ cstop_pc' = "AttributeError"
            /\ UNCHANGED client_socket
       ELSE /\ cstop_pc' = "done"
            /\ client_socket' = "closed"
    /\ UNCHANGED <<cl_running, server_ip, run_pc, probe_i, probed, found, accepting,
                   env_left, stop_req, slept, sessions>>
    /\ UNCHANGED <<serverVars, bcastVars, readVars, connVars, histVars>>

\* the agent's process before run() is called; sys.argv gave a controller address
\* or none (lines 34-39 and 332-339)
LifeIdle ==
    /\ cl_running = FALSE
    /\ client_socket = "None"
    /\ run_pc = "idle"
    /\ probe_i = 1
    /\ probed = {}
    /\ found = 0
    /\ stop_req = FALSE
    /\ cstop_pc = "idle"
    /\ slept = FALSE
    /\ sessions = 0
    /\ dropped = <<>>
    /\ waited = 0

\* no agent lifecycle in this specification
LifeNone ==
    /\ LifeIdle
    /\ server_ip = 0
    /\ accepting = {}
    /\ env_left = 0

\* the steps of the thread that runs BuddyClient.run
RunNext ==
    \/ RunStart
    \/ RunWhile
    \/ ConnectResolve
    \/ \E ok \in BOOLEAN : DiscoverLocal(ok)
    \/ DiscoverProbe
    \/ ConnectResolved
    \/ ConnectSocket
    \/ ConnectConnect
    \/ ListenWhile
    \/ \E outcome \in {"data", "eof", "error"} : ListenRecv(outcome)
    \/ RunCleanup
    \/ RunBackoff
    \/ RunSleep

StopAgentNext ==
    \/ StopAgentFlag
    \/ StopAgentCheck
    \/ StopAgentClose

(***************************************************************************)
(* The two controllers, buddy_server.py and buddy_server_windows.py, each  *)
(* as functions from its state to its state, one per event: start_server,  *)
(* one pass of accept_connections, one pass of a handle_client loop,       *)
(* send_command and stop_server, each run to its end before the next       *)
(* event.  A state is the attributes running, server_socket and clients,   *)
(* the sockets accepted (nsock, sock_addr), the sockets closed, the        *)
(* position of each handle_client thread, and ops, the socket writes and   *)
(* closes the last event made, in their order.  A write to a socket raises *)
(* when the controller has closed it or when the event says so.            *)
(***************************************************************************)
\* the entries of a dict in iteration order
Items(d) == SelectSeq(d, LAMBDA e : e.addr # 0)

\* buddy_server.py lines 32-37
LinuxInit ==
    [running |-> FALSE, server_socket |-> "None", clients |-> <<>>, nsock |-> 0,
     sock_addr |-> [s \in 1 .. MaxConns |-> 0], closed |-> {},
     hb |-> [s \in 1 .. MaxConns |-> "none"], ops |-> <<>>]

\* buddy_server.py lines 146-156
LinuxStartServer(st) ==
    [st EXCEPT !.server_socket = "listening", !.running = TRUE, !.ops = <<>>]

\* buddy_server.py lines 198-206: accept returned a connection from address a
LinuxAcceptConnections(st, a) ==
    LET s == st.nsock + 1
    IN  [st EXCEPT !.nsock = s,
                   !.sock_addr[s] = a,
                   !.clients = SetItem(@, a, s),
                   !.hb[s] = "loop",
                   !.ops = <<>>]

\* buddy_server.py lines 213-228: one pass of the loop of the thread of socket s
LinuxHandleClient(st, s, ok) ==
    IF ~st.running THEN [st EXCEPT !.hb[s] = "done", !.ops = <<>>]
    ELSE IF ok /\ s \notin st.closed
    THEN [st EXCEPT !.ops = << <<"send", s, WireRecord(Cmd("ping"))>> >>]
    ELSE [st EXCEPT !.clients = IF st.sock_addr[s] \in Keys(@)
                                 THEN DelItem(@, st.sock_addr[s]) ELSE @,
                    !.hb[s] = "failed",
                    !.ops = <<>>]

\* buddy_server.py lines 245-250: the loop over the entries; r is [ops, gone]
RECURSIVE LinuxSendLoop(_, _, _, _, _)
LinuxSendLoop(items, str, closed, fails, r) ==
    IF items = <<>> THEN r
    ELSE LET e == Head(items)
         IN  LinuxSendLoop(Tail(items), str, closed, fails,
                 IF e.sock \in closed \cup fails
                 THEN [r EXCEPT !.gone = Append(@, e.addr)]
                 ELSE [r EXCEPT !.ops = Append(@, <<"send", e.sock, Encode(str) \o <<LF>>>>)])

\* buddy_server.py lines 253-256: the removal loop
RECURSIVE LinuxRemoveLoop(_, _)
LinuxRemoveLoop(d, gone) ==
    IF gone = <<>> THEN d
    ELSE LinuxRemoveLoop(IF Head(gone) \in Keys(d) THEN DelItem(d, Head(gone)) ELSE d,
                         Tail(gone))

\* buddy_server.py lines 236-259; the writes to the sockets in fails raise
LinuxSendCommand(st, cmd, fails) ==
    IF Keys(st.clients) = {} THEN [st EXCEPT !.ops = <<>>]
    ELSE LET r == LinuxSendLoop(Items(st.clients), Dumps(cmd), st.closed, fails,
                                [ops |-> <<>>, gone |-> <<>>])
         IN  [st EXCEPT !.ops = r.ops, !.clients = LinuxRemoveLoop(@, r.gone)]

\* buddy_server.py lines 174-178: close every socket of a copy of the registry
RECURSIVE LinuxCloseLoop(_, _)
LinuxCloseLoop(items, ops) ==
    IF items = <<>> THEN ops
    ELSE LinuxCloseLoop(Tail(items), Append(ops, <<"close", Head(items).sock>>))

\* buddy_server.py lines 168-183
LinuxStopServer(st) ==
    [st EXCEPT !.running = FALSE,
               !.ops = LinuxCloseLoop(Items(st.clients), <<>>) \o
                       (IF st.server_socket # "None" THEN << <<"close", "server">> >>
                        ELSE <<>>),
               !.closed = @ \cup {e.sock : e \in {Items(st.clients)[i] :
                                                    i \in DOMAIN Items(st.clients)}},
               !.clients = <<>>,
               !.server_socket = IF @ # "None" THEN "closed" ELSE @]

\* buddy_server_windows.py lines 41-46
WindowsInit ==
    [running |-> FALSE, server_socket |-> "None", clients |-> <<>>, nsock |-> 0,
     sock_addr |-> [s \in 1 .. MaxConns |-> 0], closed |-> {},
     hb |-> [s \in 1 .. MaxConns |-> "none"], ops |-> <<>>]

\* buddy_server_windows.py lines 166-176
WindowsStartServer(st) ==
    [st EXCEPT !.running = TRUE, !.server_socket = "listening", !.ops = <<>>]

\* buddy_server_windows.py lines 220-228
WindowsAcceptConnections(st, a) ==
    LET s == st.nsock + 1
    IN  [st EXCEPT !.nsock = s,
                   !.sock_addr[s] = a,
                   !.clients = SetItem(@, a, s),
                   !.hb[s] = "loop",
                   !.ops = <<>>]

\* buddy_server_windows.py lines 235-247
WindowsHandleClient(st, s, ok) ==
    IF ~st.running THEN [st EXCEPT !.hb[s] = "done", !.ops = <<>>]
    ELSE IF ok /\ s \notin st.closed
    THEN [st EXCEPT !.ops = << <<"send", s, WireRecord(Cmd("ping"))>> >>]
    ELSE [st EXCEPT !.clients = IF st.sock_addr[s] \in Keys(@)
                                 THEN DelItem(@, st.sock_addr[s]) ELSE @,
                    !.hb[s] = "failed",
                    !.ops = <<>>]

\* buddy_server_windows.py lines 264-269
RECURSIVE WindowsSendLoop(_, _, _, _, _)
WindowsSendLoop(items, str, closed, fails, r) ==
    IF items = <<>> THEN r
    ELSE LET e == Head(items)
         IN  WindowsSendLoop(Tail(items), str, closed, fails,
                 IF e.sock \in closed \cup fails
                 THEN [r EXCEPT !.gone = Append(@, e.addr)]
                 ELSE [r EXCEPT !.ops = Append(@, <<"send", e.sock, Encode(str) \o <<LF>>>>)])

\* buddy_server_windows.py lines 272-274
RECURSIVE WindowsRemoveLoop(_, _)
WindowsRemoveLoop(d, gone) ==
    IF gone = <<>> THEN d
    ELSE WindowsRemoveLoop(IF Head(gone) \in Keys(d) THEN DelItem(d, Head(gone)) ELSE d,
                           Tail(gone))

\* buddy_server_windows.py lines 255-277
WindowsSendCommand(st, cmd, fails) ==
    IF Keys(st.clients) = {} THEN [st EXCEPT !.ops = <<>>]
    ELSE LET r == WindowsSendLoop(Items(st.clients), Dumps(cmd), st.closed, fails,
                                  [ops |-> <<>>, gone |-> <<>>])
         IN  [st EXCEPT !.ops = r.ops, !.clients = WindowsRemoveLoop(@, r.gone)]

\* buddy_server_windows.py lines 195-199
RECURSIVE WindowsCloseLoop(_, _)
WindowsCloseLoop(items, ops) ==
    IF items = <<>> THEN ops
    ELSE WindowsCloseLoop(Tail(items), Append(ops, <<"close", Head(items).sock>>))

\* a stop_server that leaves the registry as it is
WindowsStopServerKeepsRegistry(st) ==
    [st EXCEPT !.running = FALSE,
               !.ops = WindowsCloseLoop(Items(st.clients), <<>>) \o
                       (IF st.server_socket # "None" THEN << <<"close", "server">> >>
                        ELSE <<>>),
               !.closed = @ \cup {e.sock : e \in {Items(st.clients)[i] :
                                                    i \in DOMAIN Items(st.clients)}},
               !.server_socket = IF @ # "None" THEN "closed" ELSE @]

\* buddy_server_windows.py lines 189-204
WindowsStopServer(st) ==
    [st EXCEPT !.running = FALSE,
               !.ops = WindowsCloseLoop(Items(st.clients), <<>>) \o
                       (IF st.server_socket # "None" THEN << <<"close", "server">> >>
                        ELSE <<>>),
               !.closed = @ \cup {e.sock : e \in {Items(st.clients)[i] :
                                                    i \in DOMAIN Items(st.clients)}},
               !.clients = <<>>,
               !.server_socket = IF @ # "None" THEN "closed" ELSE @]

(***************************************************************************)
(* The controller: BuddyServer.__init__, then its threads interleaved.     *)
(***************************************************************************)
ServerInit ==
    /\ running = FALSE
    /\ server_socket = "None"
    /\ clients = <<>>
    /\ nsock = 0
    /\ sock_addr = Zero
    /\ sock_open = {}
    /\ link_up = {}
    /\ acc_pc = "none"
    /\ hb_pc = [s \in Socks |-> "none"]
    /\ stop_pc = "idle"
    /\ sc_pc = "idle"
    /\ sc_used = 0
    /\ sc_pos = 1
    /\ sc_len = 0
    /\ disconnected_clients = <<>>
    /\ sc_rm = 1
    /\ sc_result = "none"
    /\ nbcast = 0
    /\ bc_registered = {}
    /\ bc_nsock = 0
    /\ bc_interfered = FALSE
    /\ attempted = Zero
    /\ delivered = Zero
    /\ command_str = <<>>
    /\ sent = NoBytes
    /\ send_pc = [t \in Writers |-> "idle"]
    /\ send_off = [t \in Writers |-> 0]
    /\ send_count = [t \in Writers |-> 0]
    /\ pending = <<>>
    /\ linux = LinuxInit
    /\ windows = WindowsInit
    /\ hb_at_stop = {}

StopNext ==
    \/ StopSetFlag
    \/ StopCloseClients
    \/ StopClear
    \/ StopCloseServer
    \/ AcceptOSError

ServerNext ==
    \/ StartServer
    \/ AcceptCheck
    \/ \E a \in Addrs : Accept(a)
    \/ \E s \in Socks : PeerDies(s)
    \/ \E s \in Socks : HbPing(s)
    \/ \E s \in Socks : HbExcept(s)
    \/ \E s \in Socks : HbDel(s)
    \/ SendCommandBegin
    \/ ScNext
    \/ ScRemoveCheck
    \/ ScRemoveDel

\* the agent before it has a stream
AgentIdle ==
    /\ stream = <<>>
    /\ wire = <<>>
    /\ buffer = <<>>
    /\ listen_pc = "none"
    /\ lines_seen = 0
    /\ handed = <<>>
    /\ agent_log = <<>>

vars == <<serverVars, bcastVars, agentVars>>

\* The controller with its accept, heartbeat and send_command threads and agents
\* that connect and die.
ControllerInit == ServerInit /\ AgentIdle /\ LifeNone /\ sc_command = Cmd("lock")

SpecController == ControllerInit /\ [][ServerNext]_vars

(***************************************************************************)
(* The agent's read loop on one session, for every stream made of at most  *)
(* MaxRecords of the pieces below and every way of cutting it into reads.  *)
(***************************************************************************)
Pieces ==
    { WireRecord(Cmd("ping")),
      WireRecord(Cmd("lock")),
      WireRecord(Cmd2("open_app", "app", <<"x">>)),
      WireRecord(Cmd2("message", "content", <<"x", LF>>)),
      WireRecord(Cmd2("execute_command", "command", <<>>)),
      WireRecord(Cmd("dance")),
      WireRecord(EmptyDict),
      \* a record another encoder wrote: a non-ASCII character as raw UTF-8
      <<"{", "message", "content", "C3", "A9", "}", LF>>,
      \* a JSON value that is no object
      <<"5", LF>>,
      \* no JSON
      <<"{", "ping", LF>>,
      \* a blank line
      <<" ", LF>>,
      \* a record whose terminator has not been written
      <<"{", "lock", "}">> }

RECURSIVE Flatten(_)
Flatten(ps) == IF ps = <<>> THEN <<>> ELSE Head(ps) \o Flatten(Tail(ps))

Streams == UNION {{Flatten(ps) : ps \in [1 .. n -> Pieces]} : n \in 0 .. MaxRecords}

\* which executor operations raise during one read
FailSets == {{}, {"lock"}, ExecOps}

DecoderInit ==
    /\ ServerInit
    /\ LifeNone
    /\ sc_command = Cmd("lock")
    /\ stream \in Streams
    /\ wire = stream
    /\ buffer = <<>>
    /\ listen_pc = "listening"
    /\ lines_seen = 0
    /\ handed = <<>>
    /\ agent_log = <<>>

DecoderNext ==
    \/ \E k \in 1 .. Len(wire), fails \in FailSets : Recv(k, fails)
    \/ RecvEOF

SpecDecoder == DecoderInit /\ [][DecoderNext]_vars

(***************************************************************************)
(* One agent from the start of its process: its run loop, a stop() that    *)
(* may come at any moment, and hosts that start and stop accepting.  The   *)
(* run loop's thread keeps running (each of its steps ends: connect and    *)
(* the probes time out, the sleep ends, the controller pings every ten     *)
(* seconds), and `hostname -I` does not fail forever.                      *)
(***************************************************************************)
AgentInit ==
    /\ ServerInit
    /\ AgentIdle
    /\ sc_command = Cmd("lock")
    /\ LifeIdle
    /\ server_ip \in {0} \cup Hosts
    /\ accepting \in SUBSET Hosts
    /\ env_left = MaxEnvChanges

AgentNext ==
    \/ RunNext
    \/ StopAgentNext
    \/ \E h \in Hosts : EnvChange(h)

SpecAgent ==
    /\ AgentInit
    /\ [][AgentNext]_vars
    /\ WF_vars(RunNext)
    /\ SF_vars(DiscoverLocal(TRUE))

(***************************************************************************)
(* The controller being stopped: stop_server on the console's thread       *)
(* against the accept thread and the handle_client threads.                *)
(***************************************************************************)
ShutdownNext ==
    \/ StartServer
    \/ AcceptCheck
    \/ \E a \in Addrs : Accept(a)
    \/ \E s \in Socks : PeerDies(s)
    \/ \E s \in Socks : HbPing(s)
    \/ \E s \in Socks : HbExcept(s)
    \/ \E s \in Socks : HbDel(s)
    \/ StopNext

SpecShutdown == ControllerInit /\ [][ShutdownNext]_vars

(***************************************************************************)
(* Every thread that touches the registry: the accept thread, the          *)
(* handle_client threads, a send_command (from the voice thread it runs    *)
(* beside the console's handlers) and start_server and stop_server.        *)
(***************************************************************************)
RegistryNext ==
    \/ ServerNext
    \/ StopNext

SpecRegistry == ControllerInit /\ [][RegistryNext]_vars

(***************************************************************************)
(* The controller's fan-out with the bytes it writes, for each of the      *)
(* commands below as the argument of send_command.                         *)
(***************************************************************************)
BcCommands == {Cmd("lock"), Cmd2("message", "content", <<"x", LF, "x">>)}

FanoutInit == ServerInit /\ AgentIdle /\ LifeNone /\ sc_command \in BcCommands

SpecFanout == FanoutInit /\ [][ServerNext]_vars

(***************************************************************************)
(* One connection from the controller's write to the agent's read loop:    *)
(* the controller writes the record of one command, for every command of   *)
(* an allowed action with at most one payload string of at most MaxLen     *)
(* characters, and the agent reads it in every way recv can cut it.        *)
(***************************************************************************)
PayloadChars == {"x", "n", " ", LF, "bs", "q", "e9"}

PayloadStrings == UNION {[1 .. n -> PayloadChars] : n \in 0 .. MaxLen}

Commands ==
    {Cmd(a) : a \in Actions}
        \cup {Cmd2(a, k, v) : a \in Actions, k \in PayloadKeys, v \in PayloadStrings}

\* socket.send(data) on the connection: the first n bytes of data are queued for
\* the agent
SockSend(data, n) ==
    /\ stream' = stream \o SubSeq(data, 1, n)
    /\ wire' = wire \o SubSeq(data, 1, n)

\* buddy_server.py lines 242-247 for this connection, the whole record taken
CodecSend ==
    /\ listen_pc = "listening"
    /\ stream = <<>>
    /\ SockSend(WireRecord(sc_command), Len(WireRecord(sc_command)))
    /\ UNCHANGED <<buffer, listen_pc, lines_seen, handed, agent_log>>
    /\ UNCHANGED <<serverVars, bcastVars, lifeVars, connVars, histVars>>

CodecInit ==
    /\ ServerInit
    /\ LifeNone
    /\ sc_command \in Commands
    /\ stream = <<>>
    /\ wire = <<>>
    /\ buffer = <<>>
    /\ listen_pc = "listening"
    /\ lines_seen = 0
    /\ handed = <<>>
    /\ agent_log = <<>>

CodecNext ==
    \/ CodecSend
    \/ \E k \in 1 .. Len(wire), fails \in FailSets : Recv(k, fails)
    \/ RecvEOF

SpecCodec == CodecInit /\ [][CodecNext]_vars

(***************************************************************************)
(* One healthy connection with both of its writers: the handle_client      *)
(* thread's pings and send_command's record, each a call of                *)
(* client_socket.send with no lock around it, and the agent's read loop.   *)
(* The socket is blocking: send() puts the bytes into the connection's     *)
(* buffers, waits while they are full, and returns the number of bytes it  *)
(* has taken, which may be less than it was given.  While one send() waits *)
(* the kernel lets the other thread's send() in.                           *)
(***************************************************************************)
\* lines 216-217 and 242, 247: the bytes the thread passes to send()
SendData(t) == IF t = "ping" THEN WireRecord(Cmd("ping")) ELSE WireRecord(sc_command)

\* how many records the thread writes in a run of the model
MaxSends(t) == IF t = "ping" THEN MaxPings ELSE MaxBroadcasts

\* free space of the connection's buffers
Room == SockBuf - Len(wire)

\* line 217, line 247: the thread calls client_socket.send(...)
SendCall(t) ==
    /\ send_pc[t] = "idle"
    /\ send_count[t] < MaxSends(t)
    /\ send_pc' = [send_pc EXCEPT ![t] = "send"]
    /\ send_off' = [send_off EXCEPT ![t] = 0]
    /\ send_count' = [send_count EXCEPT ![t] = @ + 1]
    /\ UNCHANGED <<serverVars, bcastVars, readVars, lifeVars, histVars, pending, linux, windows>>

\* inside send(): the bytes not yet taken go into the buffers as far as there is
\* room; send() returns from here when that was the last of them
SendCopy(t) ==
    /\ send_pc[t] = "send"
    /\ Room > 0
    /\ \E n \in {Min({Room, Len(SendData(t)) - send_off[t]})} :
        /\ SockSend(SubSeq(SendData(t), send_off[t] + 1, Len(SendData(t))), n)
        /\ send_off' = [send_off EXCEPT ![t] = @ + n]
        /\ send_pc' = [send_pc EXCEPT
                           ![t] = IF send_off[t] + n = Len(SendData(t)) THEN "idle" ELSE "send"]
    /\ UNCHANGED <<buffer, listen_pc, lines_seen, handed, agent_log, send_count>>
    /\ UNCHANGED <<serverVars, bcastVars, lifeVars, histVars, pending, linux, windows>>

\* send() returns with part of the bytes taken; lines 217 and 247 drop the count it
\* returns and go on
SendShort(t) ==
    /\ send_pc[t] = "send"
    /\ send_off[t] >= 1
    /\ send_pc' = [send_pc EXCEPT ![t] = "idle"]
    /\ UNCHANGED <<send_off, send_count>>
    /\ UNCHANGED <<serverVars, bcastVars, readVars, lifeVars, histVars, pending, linux, windows>>

WireInit ==
    /\ ServerInit
    /\ LifeNone
    /\ sc_command = Cmd("lock")
    /\ stream = <<>>
    /\ wire = <<>>
    /\ buffer = <<>>
    /\ listen_pc = "listening"
    /\ lines_seen = 0
    /\ handed = <<>>
    /\ agent_log = <<>>

WireNext ==
    \/ \E t \in Writers : SendCall(t)
    \/ \E t \in Writers : SendCopy(t)
    \/ \E t \in Writers : SendShort(t)
    \/ \E k \in 1 .. Len(wire), fails \in FailSets : Recv(k, fails)

SpecWire == WireInit /\ [][WireNext]_vars

(***************************************************************************)
(* The agent's run loop through one session after the other, with the      *)
(* bytes of each session: the controller's address is given and its host   *)
(* accepts; in each session the controller writes a stream made of at most *)
(* MaxRecords of the pieces below, then closes or resets the connection.   *)
(* The stream, the count of lines, the commands handed and the log are     *)
(* those of the session in progress.                                       *)
(***************************************************************************)
SessPieces ==
    { WireRecord(Cmd("ping")),
      \* a record cut in two
      <<"{", "lock">>,
      <<"}", LF>>,
      \* a JSON value that is no object
      <<"5", LF>> }

SessStreams == UNION {{Flatten(ps) : ps \in [1 .. n -> SessPieces]} : n \in 1 .. MaxRecords}

\* the bytes the controller writes in this session reach the agent's socket
SessArrive(s) ==
    /\ run_pc \in {"listen", "recv"}
    /\ stream = <<>>
    /\ stream' = s
    /\ wire' = s
    /\ UNCHANGED <<buffer, listen_pc, lines_seen, handed, agent_log>>
    /\ UNCHANGED <<serverVars, bcastVars, lifeVars, connVars, histVars>>

\* what run() is left with after one pass of the read loop
ListenNext(pc) == IF pc = "listening" THEN "listen" ELSE "cleanup"

\* lines 109-123: recv returns k bytes; the loop goes on unless an exception left it
ListenData(k, fails) ==
    /\ run_pc = "recv"
    /\ RecvStep(k, fails)
    /\ run_pc' = ListenNext(listen_pc')
    /\ UNCHANGED <<cl_running, client_socket, server_ip, probe_i, probed, found, accepting,
                   env_left, stop_req, cstop_pc, slept, sessions>>
    /\ UNCHANGED <<serverVars, bcastVars, connVars, histVars>>

\* lines 110-111: recv returns b'' and the loop is left
ListenEOF ==
    /\ run_pc = "recv"
    /\ RecvEOFStep
    /\ run_pc' = "cleanup"
    /\ UNCHANGED <<cl_running, client_socket, server_ip, probe_i, probed, found, accepting,
                   env_left, stop_req, cstop_pc, slept, sessions>>
    /\ UNCHANGED <<serverVars, bcastVars, connVars, histVars>>

\* lines 125-127: recv raises and the loop is left
ListenError ==
    /\ run_pc = "recv"
    /\ RecvErrorStep
    /\ run_pc' = "cleanup"
    /\ UNCHANGED <<cl_running, client_socket, server_ip, probe_i, probed, found, accepting,
                   env_left, stop_req, cstop_pc, slept, sessions>>
    /\ UNCHANGED <<serverVars, bcastVars, connVars, histVars>>

SessionsInit ==
    /\ ServerInit
    /\ AgentIdle
    /\ LifeIdle
    /\ sc_command = Cmd("lock")
    /\ server_ip = 1
    /\ accepting = {1}
    /\ env_left = 0

SessionsNext ==
    \/ RunStart
    \/ RunWhile
    \/ ConnectResolve
    \/ ConnectSocket
    \/ ConnectConnect
    \/ ListenWhile
    \/ \E s \in SessStreams : SessArrive(s)
    \/ \E k \in 1 .. Len(wire), fails \in FailSets : ListenData(k, fails)
    \/ ListenEOF
    \/ ListenError
    \/ RunCleanup
    \/ RunBackoff
    \/ RunSleep

SpecSessions == SessionsInit /\ [][SessionsNext]_vars

(***************************************************************************)
(* The controller and one agent that was started without an address, on    *)
(* one network.  A connect that reaches the listening socket, a probe's    *)
(* (buddy_client.py line 68) as well as a session's (line 95), is          *)
(* completed by the controller's kernel and waits for accept().  The       *)
(* agent's connections come from two ports of its host: the probe's and    *)
(* the session's.                                                          *)
(***************************************************************************)
ProbeAddr == 1

SessionAddr == 2

\* a connection can still be made within the bound on the controller's sockets
CanConnect == nsock + Len(pending) < MaxConns

\* the agent is started once the controller listens
DiscRunStart ==
    /\ server_socket = "listening"
    /\ RunStart

\* lines 63-77 against the controller: connect_ex returns 0 once the connection is
\* made, and line 72 closes the probe's end of it
DiscProbe ==
    /\ CanConnect
    /\ DiscoverProbeStep
    /\ pending' = IF ProbeHit(probe_i) THEN Append(pending, ProbeAddr) ELSE pending
    /\ UNCHANGED <<serverVars, bcastVars, readVars, histVars, send_pc, send_off, send_count, linux, windows>>

\* lines 94-97 against the controller
DiscConnect ==
    /\ CanConnect
    /\ ConnectConnectStep
    /\ pending' = IF client_socket' = "open" THEN Append(pending, SessionAddr) ELSE pending
    /\ UNCHANGED <<serverVars, bcastVars, send_pc, send_off, send_count, linux, windows>>

\* buddy_server.py lines 198-206: accept returns the oldest connection that waits
DiscAccept ==
    /\ pending # <<>>
    /\ AcceptStep(Head(pending))
    /\ pending' = Tail(pending)
    /\ UNCHANGED <<readVars, lifeVars, histVars, send_pc, send_off, send_count, linux, windows>>

\* writes to a connection start to fail some time after the agent closed its end:
\* the probe's at once (line 72), the session's in run()'s cleanup (line 266)
DiscPeerGone(s) ==
    /\ \/ sock_addr[s] = ProbeAddr
       \/ sock_addr[s] = SessionAddr /\ client_socket # "open"
    /\ PeerDies(s)

DiscoveryInit ==
    /\ ServerInit
    /\ AgentIdle
    /\ LifeIdle
    /\ sc_command = Cmd("lock")
    /\ server_ip = 0
    /\ accepting = {1}
    /\ env_left = 0

DiscoveryNext ==
    \/ StartServer
    \/ AcceptCheck
    \/ DiscAccept
    \/ \E s \in Socks : DiscPeerGone(s)
    \/ \E s \in Socks : HbPing(s)
    \/ \E s \in Socks : HbExcept(s)
    \/ \E s \in Socks : HbDel(s)
    \/ SendCommandBegin
    \/ ScNext
    \/ ScRemoveCheck
    \/ ScRemoveDel
    \/ DiscRunStart
    \/ RunWhile
    \/ ConnectResolve
    \/ \E ok \in BOOLEAN : DiscoverLocal(ok)
    \/ DiscProbe
    \/ ConnectResolved
    \/ ConnectSocket
    \/ DiscConnect
    \/ ListenWhile
    \/ \E outcome \in {"data", "eof", "error"} : ListenRecv(outcome)
    \/ RunCleanup
    \/ RunBackoff
    \/ RunSleep

SpecDiscovery == DiscoveryInit /\ [][DiscoveryNext]_vars

(***************************************************************************)
(* Both controllers given the same events: the operator's start, command   *)
(* and stop, connections that arrive, and passes of the heartbeat loops    *)
(* with the outcome of their write.                                        *)
(***************************************************************************)
\* the commands of the console's quick buttons used here
PortCommands == {Cmd("lock"), Cmd2("open_app", "app", <<"x">>)}

PortFrame == UNCHANGED <<serverVars, bcastVars, readVars, lifeVars, histVars,
                         send_pc, send_off, send_count, pending>>

PortStart ==
    /\ ~linux.running
    /\ linux' = LinuxStartServer(linux)
    /\ windows' = WindowsStartServer(windows)
    /\ PortFrame

PortAccept(a) ==
    /\ linux.server_socket = "listening"
    /\ linux.nsock < MaxConns
    /\ linux' = LinuxAcceptConnections(linux, a)
    /\ windows' = WindowsAcceptConnections(windows, a)
    /\ PortFrame

PortHeartbeat(s, ok) ==
    /\ linux.hb[s] = "loop"
    /\ linux' = LinuxHandleClient(linux, s, ok)
    /\ windows' = WindowsHandleClient(windows, s, ok)
    /\ PortFrame

PortSendCommand(cmd, fails) ==
    /\ linux' = LinuxSendCommand(linux, cmd, fails)
    /\ windows' = WindowsSendCommand(windows, cmd, fails)
    /\ PortFrame

PortStop ==
    /\ linux.running
    /\ linux' = LinuxStopServer(linux)
    /\ windows' = WindowsStopServer(windows)
    /\ PortFrame

PortsNext ==
    \/ PortStart
    \/ \E a \in Addrs : PortAccept(a)
    \/ \E s \in Socks, ok \in BOOLEAN : PortHeartbeat(s, ok)
    \/ \E cmd \in PortCommands, fails \in SUBSET Socks : PortSendCommand(cmd, fails)
    \/ PortStop

SpecPorts == ControllerInit /\ [][PortsNext]_vars

(***************************************************************************)
(* Properties of the controller (SpecController).                          *)
(***************************************************************************)
Range(f) == {f[i] : i \in DOMAIN f}

\* the send_command in progress has just ended, by return or by an exception
BroadcastEnds == sc_pc # "idle" /\ sc_pc' = "idle"

\* C1: when a send_command ends during which no further agent connected, every
\* agent that was registered when it began and still takes writes when it ends got
\* the command exactly once, no agent got it twice, and every agent whose write
\* failed is absent from the registry.
C1_EveryRegisteredAgentGetsOneCopy ==
    [][(BroadcastEnds /\ nsock' = bc_nsock) =>
        \A s \in bc_registered :
            /\ delivered'[s] <= 1
            /\ (s \in sock_open' /\ s \in link_up') => delivered'[s] = 1
            /\ attempted'[s] > delivered'[s] => sock_addr'[s] \notin Keys(clients')]_vars

\* C2: a write failure does not end the loop of send_command and removes nothing:
\* while the loop runs (and no other thread touches the registry) the registry is
\* what it was at the start, when the loop is over every connection of the registry
\* has been written to once, and the addresses whose write failed are the ones the
\* removal loop then walks.
C2_FailureDoesNotAbortFanout ==
    /\ (sc_pc = "iter" /\ ~bc_interfered) => Values(clients) = bc_registered
    /\ (sc_pc \in {"rm_check", "rm_del"} /\ ~bc_interfered) =>
            \A s \in bc_registered : attempted[s] = 1
    /\ sc_pc # "idle" =>
            \A s \in bc_registered :
                attempted[s] > delivered[s] => sock_addr[s] \in Range(disconnected_clients)

\* a write failed, a later write of the same pass succeeded, and the removal has
\* not begun
C2_Witness ==
    /\ sc_pc = "rm_check"
    /\ sc_rm = 1
    /\ ~bc_interfered
    /\ \E i, j \in DOMAIN clients :
        /\ i < j
        /\ clients[i].sock # 0 /\ clients[j].sock # 0
        /\ attempted[clients[i].sock] = 1 /\ delivered[clients[i].sock] = 0
        /\ delivered[clients[j].sock] = 1

\* the handle_client thread of s has ended after its ping failed
HbFailed(s) == hb_pc[s] \in {"failed", "KeyError"}

\* C3: once the handle_client thread of a connection has handled its failed ping,
\* the connection is not in the registry, and send_command never writes to it
\* from then on.
C3_FailedHeartbeatRemoves ==
    [][\A s \in Socks :
        /\ HbFailed(s)' => s \notin Values(clients')
        /\ HbFailed(s) => attempted'[s] <= attempted[s]]_vars

\* connection 1 was removed by its heartbeat, and a send_command that began after
\* that has written to connection 2 and ended
C3_Witness ==
    /\ hb_pc[1] = "failed"
    /\ sock_addr[1] # sock_addr[2]
    /\ bc_registered = {2}
    /\ delivered[2] = 1
    /\ sc_result = "done"

\* C4: send_command works on a copy of the registry: an accept or a heartbeat
\* removal during a broadcast never aborts it, and a broadcast that returns has
\* written to every connection that was registered when it began.
C4_BroadcastIteratesSnapshot ==
    /\ sc_result # "RuntimeError"
    /\ sc_result = "done" => \A s \in bc_registered : attempted[s] = 1

\* an open socket with a running handle_client thread
LiveConnection(s) == s \in sock_open /\ hb_pc[s] \in {"loop", "except", "del"}

\* C5: no two live connections have the same peer address.
C5_OneLiveConnectionPerAddress ==
    \A s1, s2 \in Socks :
        (s1 # s2 /\ LiveConnection(s1) /\ LiveConnection(s2)) => sock_addr[s1] # sock_addr[s2]

(***************************************************************************)
(* Properties of the agent's read loop (SpecDecoder).                      *)
(***************************************************************************)
\* the terminated lines of a byte stream, without their terminators
RECURSIVE CompleteLines(_)
CompleteLines(b) ==
    IF \A i \in DOMAIN b : b[i] # LF THEN <<>>
    ELSE LET k == Min({i \in DOMAIN b : b[i] = LF})
         IN  <<SubSeq(b, 1, k - 1)>> \o CompleteLines(SubSeq(b, k + 1, Len(b)))

\* what json.loads makes of the n-th line of the stream
LineValue(n) == Loads(Strip(Decode(CompleteLines(stream)[n]).text))

LineIsBlank(n) == Strip(Decode(CompleteLines(stream)[n]).text) = <<>>

\* the read loop on the whole stream in one read
OneRead(s) ==
    OnData([buffer |-> <<>>, n |-> 0, handed |-> <<>>, log |-> <<>>, raised |-> ""], s, {})

\* all reads of the session have been made
ReadsDone == wire = <<>> \/ listen_pc # "listening"

\* C6: however the stream is cut into reads, the commands handed to
\* process_command are those handed when the whole stream comes in one read.
C6_SplitReadsEqualSingleRead == ReadsDone => handed = OneRead(stream).handed

\* C7: the commands are handed to process_command in the order of their lines in
\* the stream, each one being what its line decodes to.
C7_HandedInWriteOrder ==
    /\ \A i, j \in DOMAIN handed : i < j => handed[i].n < handed[j].n
    /\ \A i \in DOMAIN handed :
        /\ handed[i].n <= Len(CompleteLines(stream))
        /\ handed[i].kind = LineValue(handed[i].n).kind
        /\ handed[i].cmd = LineValue(handed[i].n).val

\* two different commands of one stream were both handed, the whole stream read
C7_Witness ==
    /\ Len(handed) = 2
    /\ handed[1].cmd # handed[2].cmd
    /\ handed[1].n = 1
    /\ handed[2].n = 2
    /\ wire = <<>>

\* C8: a terminated record that does not parse as a protocol message is dropped
\* and the read loop goes on: the loop is never left by an exception raised for
\* such a record.
C8_MalformedRecordIsSkipped ==
    (lines_seen >= 1 /\ ~LineIsBlank(lines_seen) /\ LineValue(lines_seen).kind # "dict")
        => listen_pc \in {"listening", "eof"}

C10_UnknownActionIsIgnored ==
    /\ listen_pc # "Exception"
    /\ \A i \in DOMAIN agent_log :
        (agent_log[i][1] = "Received command" /\ agent_log[i][2] \notin Actions) =>
            /\ i + 1 \in DOMAIN agent_log
            /\ agent_log[i + 1] = <<"Unknown command", agent_log[i][2]>>
            /\ i + 2 \in DOMAIN agent_log =>
                    agent_log[i + 2][1] \in {"Received command", "Invalid JSON received",
                                             "Error receiving data"}

\* a command without an action or with an unknown action was ignored, and a later
\* command with a known action was processed
C10_Witness ==
    /\ listen_pc = "listening"
    /\ \E i, j \in DOMAIN agent_log :
        /\ i < j
        /\ agent_log[i] \in {<<"Unknown command", "">>, <<"Unknown command", "dance">>}
        /\ agent_log[j][1] = "Received command"
        /\ agent_log[j][2] \in Actions

(***************************************************************************)
(* Properties of the agent's lifecycle (SpecAgent).                        *)
(***************************************************************************)
\* the state of the lifecycle the run loop is in
Lifecycle ==
    IF run_pc \in {"idle", "first"} THEN "Idle"
    ELSE IF run_pc \in {"resolve", "hostname", "probe", "discovered", "socket", "connect"}
    THEN "Connecting"
    ELSE IF run_pc \in {"listen", "recv"} THEN "Connected"
    ELSE IF run_pc = "halted" THEN "Stopped"
    ELSE "Disconnected"

\* C11: a session that ends leaves the agent Disconnected; from Disconnected the
\* agent goes to Connecting only after the backoff sleep; and an agent that had a
\* session and is Disconnected while its controller accepts connections (for
\* good) is Connected again later, unless stop was requested.
C11_DropLeadsToReconnect ==
    /\ [][(Lifecycle = "Connected" /\ Lifecycle' # "Connected")
            => Lifecycle' = "Disconnected"]_vars
    /\ [][(Lifecycle = "Disconnected" /\ Lifecycle' = "Connecting") => slept]_vars
    /\ (sessions >= 1 /\ Lifecycle = "Disconnected" /\ env_left = 0
            /\ server_ip \in accepting)
        ~> (Lifecycle = "Connected" \/ stop_req)

\* the agent is in its second session and nobody asked it to stop
C11_Witness ==
    /\ sessions = 2
    /\ Lifecycle = "Connected"
    /\ slept
    /\ ~stop_req

\* C12: once stop() has been requested the agent enters neither Connecting nor
\* Connected any more.
C12_StoppedIsTerminal ==
    [][stop_req =>
        (Lifecycle' \in {"Connecting", "Connected"} => Lifecycle' = Lifecycle)]_vars

\* the transitions of the lifecycle, those into Stopped apart
LifecycleSteps ==
    { <<"Idle", "Connecting">>, <<"Connecting", "Connected">>,
      <<"Connecting", "Disconnected">>, <<"Connected", "Disconnected">>,
      <<"Disconnected", "Connecting">> }

\* C13: the lifecycle changes only by one of its transitions or into Stopped, and
\* Connected is entered only with the socket that connect has just opened.
C13_OnlyLifecycleTransitions ==
    [][Lifecycle' # Lifecycle =>
        /\ Lifecycle' = "Stopped" \/ <<Lifecycle, Lifecycle'>> \in LifecycleSteps
        /\ Lifecycle' = "Connected" => client_socket' = "open"]_vars

\* a connect that failed took the agent to Disconnected without a session
C13_Witness ==
    /\ run_pc = "cleanup"
    /\ client_socket = "created"
    /\ sessions = 0
    /\ server_ip \notin accepting

\* a discover_server call has returned and no host changed since the agent began
ScanDone == run_pc = "discovered" /\ env_left = MaxEnvChanges

\* the scan is at host probe_i, having probed exactly the hosts below it, and a
\* scan that found a host found the lowest accepting one and probed none above it
ScanInOrder ==
    /\ run_pc = "probe" => probed = 1 .. (probe_i - 1)
    /\ (ScanDone /\ found # 0) =>
            /\ found \in accepting
            /\ \A h \in accepting : found <= h
            /\ probed = 1 .. found

\* C14 as claimed: hosts are probed in ascending order, the first accepting host is
\* returned, and not-found is returned only after every host of the range was
\* probed without success.
C14_NotFoundOnlyAfterFullScan ==
    /\ ScanInOrder
    /\ (ScanDone /\ found = 0) => (probed = Hosts /\ accepting = {})

\* C14 as amended: the same, but not-found is also returned at once, with no host
\* probed, when the local prefix could not be determined.
C14_NotFoundAfterFullScanOrNoPrefix ==
    /\ ScanInOrder
    /\ (ScanDone /\ found = 0) => (probed = {} \/ (probed = Hosts /\ accepting = {}))

\* host 1 did not accept, host 2 did and was returned
C14_Witness ==
    /\ ScanDone
    /\ found = 2
    /\ probed = {1, 2}
    /\ accepting = {2}

StopCompleted == stop_pc = "idle" /\ server_socket = "closed"

\* C16: after stop_server the registry is empty and no accepted connection is open.
C16_StopClosesEverything ==
    StopCompleted => (Keys(clients) = {} /\ sock_open = {})

(***************************************************************************)
(* Stopping the agent (SpecAgent).                                         *)
(***************************************************************************)
\* C17: once stop() has been requested no further host is probed and no connection
\* to a controller is opened, and there is no open stream when stop() returns.
C17_StopAbandonsConnecting ==
    [][/\ stop_req => probed' \subseteq probed
       /\ stop_req => (client_socket' = "open" => client_socket = "open")
       /\ (cstop_pc # "done" /\ cstop_pc' = "done") => client_socket' # "open"]_vars

(***************************************************************************)
(* Properties of the bytes on a connection (SpecFanout).                   *)
(***************************************************************************)
\* C18: when a send_command ends during which no further agent connected, every
\* agent that was registered when it began and still takes writes has been written
\* the one serialized line of the command, terminator last, and nothing else; and
\* while no send_command is in progress no connection is written a command, so an
\* agent that connects after the broadcast gets nothing of it.
C18_BroadcastBytesReachRegistered ==
    /\ [][(BroadcastEnds /\ nsock' = bc_nsock) =>
            \A s \in bc_registered :
                (s \in sock_open' /\ s \in link_up') => sent'[s] = WireRecord(sc_command)]_vars
    /\ [][\A s \in Socks :
            sent'[s] # sent[s] => \/ (sc_pc = "iter" /\ sent'[s] = WireRecord(sc_command))
                                 \/ (sc_pc = "idle" /\ sent'[s] = <<>>)]_vars

Count(q, x) == Cardinality({i \in DOMAIN q : q[i] = x})

\* the dict a writer's record stands for
SentCommand(t) == IF t = "ping" THEN Cmd("ping") ELSE sc_command

\* C20: whatever the two writers of a connection do concurrently, every terminated
\* line of the connection's byte stream is the record of a ping or of the command;
\* once every send has returned each record sent is there as a line of its own; and
\* the agent is handed nothing but these two messages, each no more often than it
\* was sent.
C20_ConcurrentWritesStayFramed ==
    /\ \A i \in DOMAIN CompleteLines(stream) :
        \E t \in Writers : CompleteLines(stream)[i] \o <<LF>> = SendData(t)
    /\ (\A t \in Writers : send_pc[t] = "idle") =>
        \A t \in Writers :
            Count(CompleteLines(stream), SubSeq(SendData(t), 1, Len(SendData(t)) - 1))
                = send_count[t]
    /\ \A i \in DOMAIN handed :
        /\ handed[i].kind = "dict"
        /\ \E t \in Writers : handed[i].cmd = SentCommand(t)
    /\ \A t \in Writers :
        Cardinality({i \in DOMAIN handed : handed[i].cmd = SentCommand(t)}) <= send_count[t]

(***************************************************************************)
(* Properties of the agent's sessions (SpecSessions).                      *)
(***************************************************************************)
\* the bytes of this session the agent has read
Consumed == SubSeq(stream, 1, Len(stream) - Len(wire))

C22_ConcurrentRemovalIsNoOp ==
    /\ sc_result # "KeyError"
    /\ \A s \in Socks : hb_pc[s] # "KeyError"
    /\ \A s \in Socks : hb_pc[s] = "failed" => s \notin Values(clients)

\* the handle_client thread of s has ended
HbEnded(s) == hb_pc[s] \in {"done", "failed", "KeyError"}

\* C23: a handle_client loop is started only by the accept of its own connection,
\* once; it leaves its loop only because the flag is cleared or because its own
\* write failed; after a failed write it ends only with its address out of the
\* registry; and a loop that has ended is never started again.
C23_OneSelfEndingLoopPerConnection ==
    [][\A s \in Socks :
        /\ (hb_pc[s] = "none" /\ hb_pc'[s] # "none") => (nsock' = s /\ nsock = s - 1 /\ hb_pc'[s] = "loop")
        /\ (hb_pc[s] # "none" /\ nsock' # nsock) => hb_pc'[s] = hb_pc[s]
        /\ (hb_pc[s] = "loop" /\ hb_pc'[s] = "done") => ~running
        /\ (hb_pc[s] = "loop" /\ hb_pc'[s] = "except") => (s \notin sock_open \/ s \notin link_up)
        /\ (hb_pc[s] = "loop" /\ hb_pc'[s] # "loop") => hb_pc'[s] \in {"done", "except"}
        /\ (hb_pc[s] = "except" /\ hb_pc'[s] # "except") => hb_pc'[s] \in {"del", "failed"}
        /\ (hb_pc[s] = "del" /\ hb_pc'[s] # "del") =>
            (hb_pc'[s] \in {"failed", "KeyError"} /\ sock_addr[s] \notin Keys(clients'))
        /\ (hb_pc[s] = "except" /\ hb_pc'[s] = "failed") => sock_addr[s] \notin Keys(clients')
        /\ HbEnded(s) => hb_pc'[s] = hb_pc[s]]_vars

\* of two connections one loop ended by its failed write and the other by the
\* cleared flag
C23_Witness ==
    /\ hb_pc[1] = "failed"
    /\ hb_pc[2] = "done"
    /\ 2 \in link_up
    /\ stop_pc = "idle"

\* C24: a handle_client loop whose connection no longer takes writes ends at its
\* next pass, and when start_server is called after a stop_server, every loop that
\* had been started when that stop_server began has ended or ends at its next pass
\* because its write fails: none goes on under the new flag.
C24_LoopsEndAfterStop ==
    /\ [](\A s \in Socks :
            (hb_pc[s] = "loop" /\ running /\ ~WriteOk(s)) => HbPingNext(s) = "except")
    /\ [][(~running /\ running') =>
            \A s \in hb_at_stop :
                HbEnded(s) \/ hb_pc[s] \in {"except", "del"} \/ ~WriteOk(s)]_vars

(***************************************************************************)
(* Further properties of the agent (SpecSessions, SpecAgent, SpecDecoder). *)
(***************************************************************************)
\* C25: the agent leaves Connected only when recv returned the end of the stream,
\* when recv raised an I/O error, or when stop() had cleared self.running: never
\* because of what the bytes it received hold.
C25_ContentNeverEndsSession ==
    [][(Lifecycle = "Connected" /\ Lifecycle' # "Connected") =>
        (listen_pc' \in {"eof", "OSError"} \/ ~cl_running)]_vars


\* the executor operation spec 6 names for an action, "none" where it names none
OperationOf(a) ==
    IF a \in {"shutdown", "restart", "lock", "open_app", "close_apps", "show_desktop",
              "screenshot"}
    THEN a
    ELSE IF a = "message" THEN "show_message"
    ELSE IF a = "execute_command" THEN "shell"
    ELSE "none"

\* the payload field of a command that its operation takes
PayloadOf(a, cmd) ==
    IF a = "open_app" THEN Get(cmd, "app", <<>>)
    ELSE IF a = "message" THEN Get(cmd, "content", DefaultContent)
    ELSE IF a = "execute_command" THEN Get(cmd, "command", <<>>)
    ELSE <<>>

\* the positions of the log at which process_command was entered
ReceivedAt == {i \in DOMAIN agent_log : agent_log[i][1] = "Received command"}

\* the executor calls made for the command received at position i of the log
CallsOf(i) ==
    {j \in DOMAIN agent_log :
        /\ j > i
        /\ agent_log[j][1] = "exec"
        /\ \A m \in ReceivedAt : ~(i < m /\ m < j)}

\* the command received at position i of the log: the handed values before the
\* last are all dicts, one per entry of process_command
CommandAt(i) == handed[Cardinality({m \in ReceivedAt : m <= i})].cmd

\* C26: for every message handed to process_command at most one executor call is
\* made, it is the operation of the message's action and takes the message's
\* payload field (app, content, command); a ping makes no call, and neither does
\* execute_command whose command is empty or missing.
C26_OneOperationPerMessage ==
    \A i \in ReceivedAt :
        LET cmd == CommandAt(i)
            a == Get(cmd, "action", "")
        IN  /\ agent_log[i][2] = a
            /\ Cardinality(CallsOf(i)) <= 1
            /\ \A j \in CallsOf(i) :
                /\ OperationOf(a) # "none"
                /\ agent_log[j] = <<"exec", OperationOf(a), PayloadOf(a, cmd)>>
            /\ a = "ping" => CallsOf(i) = {}
            /\ (a = "execute_command" /\ Get(cmd, "command", <<>>) = <<>>) =>
                    CallsOf(i) = {}

\* execute_command with a command of two characters reached the shell with
\* exactly that command
C26_Witness ==
    /\ sc_command = Cmd2("execute_command", "command", <<"x", "q">>)
    /\ handed # <<>>
    /\ \E i \in DOMAIN agent_log : agent_log[i] = <<"exec", "shell", <<"x", "q">>>>


\* C27: between two consecutive connection attempts the run loop sleeps exactly
\* once, for reconnect_delay seconds whatever happened before: an attempt that is
\* not the first starts with exactly reconnect_delay seconds waited since the socket
\* of the attempt before was closed, and every sleep is the only one since then.
C27_OneConstantBackoff ==
    /\ [][(run_pc = "while" /\ run_pc' = "resolve") => waited = reconnect_delay]_vars
    /\ [][(run_pc = "sleep" /\ run_pc' # "sleep") =>
            (waited = 0 /\ waited' = reconnect_delay /\ reconnect_delay = 5)]_vars
    /\ [][(run_pc = "backoff" /\ run_pc' = "while") => ~cl_running]_vars

\* the agent starts its third attempt, after two sessions, having waited once
C27_Witness ==
    /\ run_pc = "resolve"
    /\ sessions = 2
    /\ waited = reconnect_delay
    /\ cl_running


\* C28: while the run loop is between its cleanup and its next attempt (the test of
\* line 269, the sleep, the test of line 260) or has left the loop, client_socket
\* is None: the socket of the attempt before, connected or not, was closed and
\* forgotten by lines 265-267, and stop() does not bring one back.
C28_NoStreamWhileDisconnected ==
    /\ [](run_pc \in {"backoff", "sleep", "while", "halted"} => client_socket = "None")
    /\ [][(run_pc = "cleanup" /\ run_pc' # "cleanup") =>
            (run_pc' = "backoff" /\ client_socket' = "None")]_vars

\* the agent sleeps after its first session
C28_Witness ==
    /\ client_socket = "None"
    /\ run_pc = "sleep"
    /\ sessions = 1
    /\ ~stop_req


\* the bytes read since the last terminator read
Fragment ==
    LET lfs == {i \in DOMAIN Consumed : Consumed[i] = LF}
        last == IF lfs = {} THEN 0 ELSE CHOOSE i \in lfs : \A j \in lfs : j <= i
    IN  SubSeq(Consumed, last + 1, Len(Consumed))

\* C29: nothing is handed to process_command for a line whose terminator has not
\* been read, and while the read loop goes on, after each read the buffer holds no
\* terminator and is the text of the bytes read since the last terminator.
C29_FragmentStaysBuffered ==
    /\ lines_seen <= Count(Consumed, LF)
    /\ \A i \in DOMAIN handed : handed[i].n <= Count(Consumed, LF)
    /\ listen_pc = "listening" =>
        /\ \A i \in DOMAIN buffer : buffer[i] # LF
        /\ Decode(Fragment).ok
        /\ buffer = Decode(Fragment).text
        /\ lines_seen = Count(Consumed, LF)

\* a command was handed, the first bytes of the next record are in the buffer and
\* its terminator has not been read
C29_Witness ==
    /\ listen_pc = "listening"
    /\ Len(handed) = 1
    /\ buffer = <<"{", "lock", "}">>
    /\ wire = <<LF>>


(***************************************************************************)
(* The registry entry of a reused address (SpecController).                *)
(***************************************************************************)
\* C30: the removal made by a handle_client thread whose write failed takes out of
\* the registry no connection but its own: an entry that a newer connection from
\* the same address has replaced stays.
C30_HeartbeatRemovesOwnEntryOnly ==
    [][\A s \in Socks :
        (hb_pc[s] = "del" /\ hb_pc'[s] = "failed") =>
            Values(clients) \ Values(clients') \subseteq {s}]_vars


(***************************************************************************)
(* What changes the registry (SpecRegistry).                               *)
(***************************************************************************)
\* C31: an address leaves the registry only in the removal step of a handle_client
\* thread of that address whose ping write failed, in the removal step of a
\* send_command whose write to that address failed, or in stop_server's clear; a
\* step in which a command was written, and every step of a handle_client thread
\* but that removal (a ping that was written changes nothing at all), leaves the
\* registry as it is; and an address enters only in the accept thread's step,
\* never in send_command's.
C31_RegistryFrame ==
    /\ [][\A a \in Addrs :
            (a \in Keys(clients) /\ a \notin Keys(clients')) =>
                \/ \E s \in Socks : /\ sock_addr[s] = a
                                    /\ hb_pc[s] = "del"
                                    /\ hb_pc'[s] = "failed"
                \/ /\ sc_pc = "rm_del"
                   /\ a = disconnected_clients[sc_rm]
                \/ stop_pc = "clear" /\ stop_pc' # "clear"]_vars
    /\ [][\A s \in Socks :
            /\ hb_pc'[s] = "del" => hb_pc[s] \in {"except", "del"}
            /\ (hb_pc'[s] = "except" /\ hb_pc[s] # "except") =>
                    (hb_pc[s] = "loop" /\ ~WriteOk(s))
            /\ (hb_pc[s] \in {"loop", "except"} /\ hb_pc'[s] # hb_pc[s]) =>
                    clients' = clients
            /\ attempted'[s] > attempted[s] =>
                    /\ clients' = clients
                    /\ IF WriteOk(s)
                       THEN disconnected_clients' = disconnected_clients
                       ELSE disconnected_clients' =
                                Append(disconnected_clients, sock_addr[s])]_vars
    /\ [][Len(disconnected_clients') > Len(disconnected_clients) =>
            \E s \in Socks : attempted'[s] > attempted[s] /\ ~WriteOk(s)]_vars
    /\ [][\A a \in Addrs :
            (a \notin Keys(clients) /\ a \in Keys(clients')) =>
                (acc_pc = "accept" /\ acc_pc' = "check" /\ sc_pc' = sc_pc)]_vars

\* a handle_client thread and a send_command have each removed an address after a
\* failed write, and a stop_server has cleared the registry
C31_Witness ==
    /\ \E s \in Socks : hb_pc[s] = "failed"
    /\ sc_result = "done"
    /\ disconnected_clients # <<>>
    /\ server_socket = "closed"
    /\ stop_pc = "idle"
    /\ clients # <<>>
    /\ Keys(clients) = {}


(***************************************************************************)
(* The registry and the agent's discovery (SpecDiscovery).                 *)
(***************************************************************************)
\* C32: the connection of a discovery probe is never an entry of the registry that
\* a broadcast writes to, and the one agent has at most one entry.
C32_ProbeLeavesNoEntry ==
    /\ \A s \in Socks : sock_addr[s] = ProbeAddr => attempted[s] = 0
    /\ DictLen(clients) <= 1


(***************************************************************************)
(* The address the agent connects to (SpecAgent).                          *)
(***************************************************************************)
\* C33: an address in server_ip stays there; an attempt that starts with an address
\* goes straight to the connect with it, and discovery runs only while there is
\* none, at the start of every attempt made without one; what discovery returns,
\* an address or none, is what server_ip holds afterwards.
C33_DiscoveredAddressIsKept ==
    /\ [][server_ip # 0 => server_ip' = server_ip]_vars
    /\ [][(run_pc = "resolve" /\ run_pc' # "resolve") =>
            run_pc' = (IF server_ip = 0 THEN "hostname" ELSE "socket")]_vars
    /\ [](run_pc \in {"hostname", "probe", "discovered"} => server_ip = 0)
    /\ [][(run_pc = "discovered" /\ run_pc' # "discovered") => server_ip' = found]_vars
    /\ [][(run_pc' = "socket" /\ run_pc # "socket") => server_ip' # 0]_vars

\* the agent found its controller by discovery, had a session with it, and starts a
\* later attempt with the same address although that host no longer accepts
C33_Witness ==
    /\ run_pc = "socket"
    /\ found # 0
    /\ server_ip = found
    /\ sessions = 1
    /\ server_ip \notin accepting


(***************************************************************************)
(* The two controllers (SpecPorts).                                        *)
(***************************************************************************)
\* C34: given the same events, BuddyServer and BuddyServerWindows make in every
\* event the same socket writes and closes in the same order and end it with the
\* same registry, flags and heartbeat threads.
C34_ControllersAgree ==
    /\ linux.ops = windows.ops
    /\ linux.clients = windows.clients
    /\ linux = windows

\* both have accepted two agents, dropped one when its heartbeat write failed,
\* and have just closed the remaining connection and then the listening socket in
\* stop_server
C34_Witness ==
    /\ windows.server_socket = "closed"
    /\ windows.nsock = 2
    /\ \E s \in Socks : windows.hb[s] = "failed"
    /\ \E s \in Socks : windows.ops = << <<"close", s>>, <<"close", "server">> >>
    /\ windows.clients = <<>>

====
